---- MODULE Spec2Model ----
(***************************************************************************)
(* A model of fbx_direct: the pull parser (reader) and the event emitter   *)
(* (writer) of Binary / ASCII FBX.                                         *)
(*                                                                         *)
(* Bytes are the integers 0..255, byte strings are sequences of bytes.     *)
(* TLC's integers are 32-bit, so an unsigned 32-bit field whose top bit is *)
(* set is read as Huge (2^31-1): every offset and length of the bounded    *)
(* inputs is far below that, and the code only compares such fields with   *)
(* offsets or counts up to them.  Floating-point values are represented by *)
(* their bit patterns (the writer and the reader copy the bits).           *)
(***************************************************************************)
EXTENDS Integers, Sequences, FiniteSets, TLC

VARIABLES
    mode,       \* "writer": events are written to the sink; "reader": a source is pulled;
                \* "iterator": a source is pulled through the Events iterator;
                \* "property": the conversions of a property are called
    config,     \* EmitterConfig: ignore_minor_errors, fbx_version (<<>> = None, <<v>> = Some(v))
    emitter,    \* Emitter: state, final_result and the sub-emitter's fields
    sink,       \* the seekable byte sink (W: Write + Seek): bytes, pos, broken, base, and
                \* as bookkeeping start, the pos it had when the writer was given it
    aborted,    \* TRUE once the writing process never returned from a call (stack overflow / panic)
    wresult,    \* what the last Emitter::write call returned ("None" before the first call)
    written,    \* the events an emit function has written, in order
    wlast,      \* bookkeeping of the last write call: event, sink, emitter and opened before it
    opened,     \* bookkeeping: the nodes started and not yet ended, innermost last, each with
                \* the offset of its record, its properties and the number of its children
    source,     \* the reader's byte source: bytes and cur (bytes consumed so far)
    parser,     \* Parser: common.pos, common.final_result, state and the sub-parser's fields
    pulled,     \* the results EventReader::next has returned, in order
    rlast,      \* bookkeeping of the last pull: parser and source before it
    finished,   \* Events: finished
    yielded,    \* the items Events::next has returned, in order (NoResult for None)
    owned,      \* the OwnedProperty whose conversions are called
    converted   \* the last conversion called on owned: call, shape, from_string and res,
                \* what it returned

vars == <<mode, config, emitter, sink, aborted, wresult, written, wlast, opened,
          source, parser, pulled, rlast, finished, yielded, owned, converted>>

writerVars == <<config, emitter, sink, aborted, wresult, written, wlast, opened>>
readerVars == <<source, parser, pulled, rlast, finished, yielded>>
propVars == <<owned, converted>>

----------------------------------------------------------------------------
(* Bounds of the model. *)

\* The number of StartNode events one writer run may write.
MaxNodes == 2
\* The number of events one writer run may write.
MaxEvents == 6
\* The number of EndFbx events one writer run may write.
MaxEndFbx == 1
\* The number of pulls made after the reader has returned its terminal result.
MaxExtraPulls == 2
\* The offset of a Cursor that is given to the writer past the end of its empty vector.
SinkStartOffset == 5

----------------------------------------------------------------------------
(* Bytes and fixed-width little-endian integers (byteorder::LittleEndian). *)

\* The largest integer of the model: 2^31 - 1.
Huge == 127 * 16777216 + 16777215

Min(a, b) == IF a < b THEN a ELSE b
Max(a, b) == IF a > b THEN a ELSE b

Zeros(n) == [i \in 1..n |-> 0]

Take(s, n) == SubSeq(s, 1, Min(n, Len(s)))
Drop(s, n) == SubSeq(s, Min(n, Len(s)) + 1, Len(s))

\* write_u8 / write_u32 / write_i32 / write_u64 / write_i64 <LittleEndian>: the low n
\* bytes of v in two's complement, least significant first (a cast `as u32` truncates
\* the same way).
RECURSIVE LeBytes(_, _)
LeBytes(v, n) ==
    IF n = 0 THEN <<>> ELSE <<v % 256>> \o LeBytes(v \div 256, n - 1)

\* read_i16 / read_i32 / read_i64 / read_f32 / read_f64 <LittleEndian>: the signed value of
\* the bytes (a float is its bit pattern read as a signed integer of its width).
RECURSIVE LeSigned(_)
LeSigned(b) ==
    IF Len(b) = 1 THEN (IF b[1] >= 128 THEN b[1] - 256 ELSE b[1])
    ELSE b[1] + 256 * LeSigned(Tail(b))

\* read_u32 <LittleEndian>: the unsigned value of four bytes.
LeU32(b) ==
    IF b[4] >= 128 THEN Huge
    ELSE b[1] + 256 * b[2] + 65536 * b[3] + 16777216 * b[4]

\* v > u32::max_value(), for a 64-bit v.
ExceedsU32(v) == (v \div 65536) > 65535

----------------------------------------------------------------------------
(* flate2's zlib encoder and decoder.  The library is outside the          *)
(* repository; it is modelled as a zlib stream of one stored block: the    *)
(* two-byte zlib header, BFINAL/BTYPE = stored, LEN, NLEN, the data and    *)
(* the big-endian Adler-32 of the data.                                    *)

\* The two running sums of Adler-32 over d[i..], from the sums a and b.
RECURSIVE AdlerSums(_, _, _, _)
AdlerSums(d, i, a, b) ==
    IF i > Len(d) THEN <<a, b>>
    ELSE AdlerSums(d, i + 1, (a + d[i]) % 65521, (b + ((a + d[i]) % 65521)) % 65521)

Adler32(d) ==
    LET sums == AdlerSums(d, 1, 1, 0)
    IN  <<sums[2] \div 256, sums[2] % 256, sums[1] \div 256, sums[1] % 256>>

\* ZlibEncoder::new(sink, Compression::Default), the element writes, finish().
ZlibEncode(d) ==
    <<120, 1>> \o <<1>> \o LeBytes(Len(d), 2) \o LeBytes(65535 - Len(d), 2) \o d \o Adler32(d)

\* ZlibDecoder over `comp`, asked for `want` plain bytes: the bytes, or failure.  The
\* decoder stops as soon as the output asked for is produced, so the checksum that
\* follows the data is not looked at.
ZlibDecode(comp, want) ==
    LET okHeader == /\ Len(comp) >= 7
                    /\ comp[1] = 120 /\ (comp[1] * 256 + comp[2]) % 31 = 0
                    /\ comp[3] = 1
                    /\ comp[4] + comp[6] = 255 /\ comp[5] + comp[7] = 255
        len == comp[4] + 256 * comp[5]
    IN  IF okHeader /\ want <= len /\ Len(comp) >= 7 + want
        THEN [ok |-> TRUE, data |-> SubSeq(comp, 8, 7 + want)]
        ELSE [ok |-> FALSE, data |-> <<>>]

----------------------------------------------------------------------------
(* The sink: std::io::Cursor<Vec<u8>>, or a file, behind Write + Seek.     *)
(* bytes[1] is the byte at the offset base * 2^32 of the sink, and pos is  *)
(* counted from there: the offset sink.seek(SeekFrom::Current(0)) returns  *)
(* is base * 2^32 + pos.  base is 0 for a Cursor over a new vector and 1   *)
(* for a file that holds 4 GiB before the writer is given it.              *)

\* Cursor::write: the bytes replace what is at pos and extend the vector (a gap
\* between the end of the vector and pos is filled with zeros).
SinkWrite(s, b) ==
    [s EXCEPT
        !.bytes = IF s.pos >= Len(s.bytes)
                  THEN s.bytes \o Zeros(s.pos - Len(s.bytes)) \o b
                  ELSE SubSeq(s.bytes, 1, s.pos) \o b
                       \o SubSeq(s.bytes, s.pos + Len(b) + 1, Len(s.bytes)),
        !.pos = s.pos + Len(b)]

\* sink.seek(SeekFrom::Start(p)).
SinkSeek(s, p) == [s EXCEPT !.pos = p]

EmptySink(broken) ==
    [bytes |-> <<>>, pos |-> 0, broken |-> broken, base |-> 0, start |-> 0]

\* A working sink given to the writer at the offset base * 2^32 + pos.
SinkAt(pos, base) ==
    [bytes |-> <<>>, pos |-> pos, broken |-> FALSE, base |-> base, start |-> pos]

\* `last_pos > u32::max_value() as u64` for the offset pos of the sink.
OffsetExceedsU32(s, pos) == s.base > 0 \/ ExceedsU32(pos)

\* write_u32(last_pos as u32) / write_u64(last_pos) for the offset pos of the sink: the
\* cast keeps the low 32 bits.
OffsetBytes(s, pos, w) ==
    IF w = 4 THEN LeBytes(pos, 4) ELSE LeBytes(pos, 4) \o LeBytes(s.base, 4)

----------------------------------------------------------------------------
(* Properties and events.  A property is [tag, val]: val is the sequence   *)
(* of its contents (one element for a scalar, 0/1 for a boolean, the bytes *)
(* for String and Binary).                                                 *)

Prop(tag, val) == [tag |-> tag, val |-> val]

NoFormat == [kind |-> "None", version |-> 0]
Binary(v) == [kind |-> "Binary", version |-> v]
Ascii == [kind |-> "Ascii", version |-> 0]

Event(type, format, name, properties, text) ==
    [type |-> type, format |-> format, name |-> name, properties |-> properties,
     text |-> text]

StartFbx(format) == Event("StartFbx", format, <<>>, <<>>, <<>>)
EndFbx == Event("EndFbx", NoFormat, <<>>, <<>>, <<>>)
StartNode(name, properties) == Event("StartNode", NoFormat, name, properties, <<>>)
EndNode == Event("EndNode", NoFormat, <<>>, <<>>, <<>>)
Comment(text) == Event("Comment", NoFormat, <<>>, <<>>, text)

----------------------------------------------------------------------------
(* BinaryEmitter (writer/emitter/binary.rs).  Every handler returns        *)
(* [em, sink, res]: the emitter and the sink after it and "Ok" or the      *)
(* error kind ("Panic" when the handler panics).                           *)

Ret(em, s, res) == [em |-> em, sink |-> s, res |-> res]

\* The width of end_offset, num_properties and property_list_len the writer uses.
WriterFieldWidth(version) == IF version < 7500 THEN 4 ELSE 8

\* The placeholder written for end_offset: 0xef_be_ad_de (repeated for 64 bits).
EndOffsetPlaceholder(version) ==
    IF version < 7500 THEN <<222, 173, 190, 239>>
    ELSE <<222, 173, 190, 239, 222, 173, 190, 239>>

\* The zero-filled node record header ("null record").
WriterNullRecord(version) == IF version < 7500 THEN Zeros(13) ELSE Zeros(25)

BinaryEmitterNew(em, version) ==
    [em EXCEPT !.version = version, !.pos = 0, !.end_offset_pos_stack = <<>>,
               !.null_record_necessities = <<>>]

binary_emit_start_fbx(em, s, ver) ==
    IF ver < 7000 \/ ver >= 8000 THEN Ret(em, s, "UnsupportedFbxVersion")
    ELSE IF s.broken THEN Ret(em, s, "Io")
    ELSE Ret(em,
             SinkWrite(SinkWrite(SinkWrite(s, <<75, 97, 121, 100, 97, 114, 97, 32, 70, 66, 88,
                                                32, 66, 105, 110, 97, 114, 121, 32, 32, 0>>),
                                 <<26, 0>>),
                       LeBytes(ver, 4)),
             "Ok")

FooterMagic == <<250, 188, 175, 15, 223, 207, 223, 111, 191, 127, 255, 143, 31, 255, 47, 127>>
TrailerMagic == <<248, 90, 140, 106, 222, 245, 217, 126, 236, 233, 12, 227, 117, 143, 41, 11>>

\* A variant of emit_end_fbx that pads the footer as if the null record were not
\* written.
EndFbxPaddedBeforeRecord(em, s) ==
    Ret(em,
        SinkWrite(s, WriterNullRecord(em.version) \o FooterMagic
                     \o Zeros((16 - (s.pos % 16)) % 16)
                     \o Zeros(4) \o LeBytes(em.version, 4) \o Zeros(120) \o TrailerMagic),
        IF s.broken THEN "Io" ELSE "Ok")

\* emit_end_fbx: the null record, the footer magic, the padding to a multiple of 16 at
\* current_off, then zeros, the version, zeros and the trailer magic.
binary_emit_end_fbx(em, s) ==
    LET record == WriterNullRecord(em.version)
        current_off == (s.pos + Len(record) + Len(FooterMagic)) % 16
    IN  IF s.broken THEN Ret(em, s, "Io")
        ELSE Ret(em,
                 SinkWrite(s, record \o FooterMagic
                              \o (IF current_off # 0 THEN Zeros(16 - current_off) ELSE <<>>)
                              \o Zeros(4) \o LeBytes(em.version, 4) \o Zeros(120)
                              \o TrailerMagic),
                 "Ok")

\* The bytes of the elements of an array, each written little-endian in w bytes.
RECURSIVE ElementBytes(_, _)
ElementBytes(vec, w) ==
    IF vec = <<>> THEN <<>> ELSE LeBytes(Head(vec), w) \o ElementBytes(Tail(vec), w)

\* A variant of read_array_value! that leaves the placeholder of the compressed size
\* as it was written.
WriteArrayStreamUnpatched(s, array_length, type_code, stream) ==
    [sink |-> SinkWrite(s, <<type_code>> \o LeBytes(array_length, 4) \o LeBytes(1, 4)
                           \o LeBytes(0, 4) \o stream),
     size |-> 12 + Len(stream)]

\* read_array_value! once the elements are encoded: the type code, the array header
\* with encoding 1 and a placeholder for the compressed size at byte_size_pos, the zlib
\* stream from vec_start_pos to last_pos, then the seek back that fills the placeholder
\* in and the seek to last_pos.  Yields the sink and the 12 + byte_size counted for the
\* property.
WriteArrayStream(s, array_length, type_code, stream) ==
    LET byte_size_pos == s.pos + 1 + 4 + 4
        vec_start_pos == byte_size_pos + 4
        last_pos == vec_start_pos + Len(stream)
        byte_size == last_pos - vec_start_pos
    IN  [sink |-> SinkSeek(SinkWrite(SinkSeek(SinkWrite(s, <<type_code>>
                                                          \o LeBytes(array_length, 4)
                                                          \o LeBytes(1, 4) \o LeBytes(0, 4)
                                                          \o stream),
                                              byte_size_pos),
                                     LeBytes(byte_size, 4)),
                           last_pos),
         size |-> 12 + byte_size]

\* read_array_value!: the elements go through a ZlibEncoder.
WriteArrayValue(s, vec, type_code, w) ==
    WriteArrayStream(s, Len(vec), type_code, ZlibEncode(ElementBytes(vec, w)))

\* A boolean as the writer encodes it: 'Y' for true, 'T' for false.
BoolByte(v) == IF v = 1 THEN 89 ELSE 84

\* The bytes of the booleans of an array.
BoolBytes(vec) == [i \in 1..Len(vec) |-> BoolByte(vec[i])]

\* One property: its type code and payload.  Yields the sink and the size the code
\* counts for it without the type code.
WriteProperty(s, prop) ==
    CASE prop.tag = "Bool" ->
            [sink |-> SinkWrite(s, <<67, BoolByte(prop.val[1])>>), size |-> 1]
      [] prop.tag = "I16" ->
            [sink |-> SinkWrite(s, <<89>> \o LeBytes(prop.val[1], 2)), size |-> 2]
      [] prop.tag = "I32" ->
            [sink |-> SinkWrite(s, <<73>> \o LeBytes(prop.val[1], 4)), size |-> 4]
      [] prop.tag = "I64" ->
            [sink |-> SinkWrite(s, <<76>> \o LeBytes(prop.val[1], 8)), size |-> 8]
      [] prop.tag = "F32" ->
            [sink |-> SinkWrite(s, <<70>> \o LeBytes(prop.val[1], 4)), size |-> 4]
      [] prop.tag = "F64" ->
            [sink |-> SinkWrite(s, <<68>> \o LeBytes(prop.val[1], 8)), size |-> 8]
      [] prop.tag = "VecBool" ->
            [sink |-> SinkWrite(s, <<98>> \o BoolBytes(prop.val)), size |-> Len(prop.val)]
      [] prop.tag = "VecI32" -> WriteArrayValue(s, prop.val, 105, 4)
      [] prop.tag = "VecI64" -> WriteArrayValue(s, prop.val, 108, 8)
      [] prop.tag = "VecF32" -> WriteArrayValue(s, prop.val, 102, 4)
      [] prop.tag = "VecF64" -> WriteArrayValue(s, prop.val, 100, 8)
      [] prop.tag = "String" ->
            [sink |-> SinkWrite(s, <<83>> \o LeBytes(Len(prop.val), 4) \o prop.val),
             size |-> 4 + Len(prop.val)]
      [] prop.tag = "Binary" ->
            [sink |-> SinkWrite(s, <<82>> \o LeBytes(Len(prop.val), 4) \o prop.val),
             size |-> 4 + Len(prop.val)]

\* The loop over the properties: props_byte_size += 1 + <the property's size>.
RECURSIVE WriteProperties(_, _, _)
\* A variant of the loop that leaves the type code of a property out of the tally.
WritePropertiesAfterUncoded(written_one, properties, props_byte_size) ==
    WriteProperties(written_one.sink, properties, props_byte_size + written_one.size)

\* The rest of the loop after one property is written.
WritePropertiesAfter(written_one, properties, props_byte_size) ==
    WriteProperties(written_one.sink, properties, props_byte_size + 1 + written_one.size)

WriteProperties(s, properties, props_byte_size) ==
    IF properties = <<>> THEN [sink |-> s, size |-> props_byte_size]
    ELSE WritePropertiesAfter(WriteProperty(s, Head(properties)), Tail(properties),
                              props_byte_size)

\* The flag pushed for a node that starts: whether it needs a null record although no
\* child follows.
\* A variant that never asks for a null record on account of the properties.
SeedNever(properties) == FALSE

NullRecordSeed(properties) == properties = <<>>

\* A variant that sets the parent's flag and pushes no flag for the node.
PushNecessityParentOnly(necessities, properties) ==
    LET n == Len(necessities)
    IN  IF n > 0 THEN [necessities EXCEPT ![n] = TRUE] ELSE necessities

\* The flags after a StartNode: the parent's flag is set, the node's own flag is pushed.
PushNecessity(necessities, properties) ==
    LET n == Len(necessities)
    IN  Append(IF n > 0 THEN [necessities EXCEPT ![n] = TRUE] ELSE necessities,
               NullRecordSeed(properties))

\* A variant of the update of property_list_len that leaves the cursor behind the field.
UpdatePropertyListLenStays(em, prop_list_len_offset, p) ==
    Ret(em,
        SinkWrite(SinkSeek(p.sink, prop_list_len_offset),
                  LeBytes(p.size, WriterFieldWidth(em.version))),
        "Ok")

\* The end of emit_start_node, "Update `property_list_len`": p is the sink and the
\* props_byte_size after the properties, p.sink.pos is last_pos.
UpdatePropertyListLen(em, prop_list_len_offset, p) ==
    IF em.version < 7500 /\ ExceedsU32(p.size)
    THEN Ret(em, SinkSeek(p.sink, prop_list_len_offset), "DataTooLarge")
    ELSE Ret(em,
             SinkSeek(SinkWrite(SinkSeek(p.sink, prop_list_len_offset),
                                LeBytes(p.size, WriterFieldWidth(em.version))),
                      p.sink.pos),
             "Ok")

\* emit_start_node: the flags, the offset of end_offset pushed, the node record header
\* (placeholder, num_properties, 0 for property_list_len, name_len), the name, the
\* properties and the update of property_list_len.
binary_emit_start_node(em, s, name, properties) ==
    LET w == WriterFieldWidth(em.version)
        em1 == [em EXCEPT !.null_record_necessities = PushNecessity(@, properties)]
        em2 == [em1 EXCEPT !.end_offset_pos_stack = Append(@, s.pos)]
        prop_list_len_offset == s.pos + w + w
        header == EndOffsetPlaceholder(em.version) \o LeBytes(Len(properties), w)
                  \o LeBytes(0, w) \o LeBytes(Len(name), 1) \o name
    IN  IF s.broken THEN Ret(em1, s, "Io")
        ELSE IF em.version < 7500 /\ ExceedsU32(Len(properties))
        THEN Ret(em2, SinkWrite(s, EndOffsetPlaceholder(em.version)), "DataTooLarge")
        ELSE IF properties = <<>> THEN Ret(em2, SinkWrite(s, header), "Ok")
        ELSE UpdatePropertyListLen(em2, prop_list_len_offset,
                                   WriteProperties(SinkWrite(s, header), properties, 0))

\* A variant of emit_end_node that takes last_pos before it writes the null record.
EndNodeOffsetBeforeNullRecord(em, s) ==
    LET n == Len(em.null_record_necessities)
        m == Len(em.end_offset_pos_stack)
        em2 == [em EXCEPT !.null_record_necessities = SubSeq(@, 1, n - 1),
                          !.end_offset_pos_stack = SubSeq(@, 1, m - 1)]
        s1 == IF em.null_record_necessities[n]
              THEN SinkWrite(s, WriterNullRecord(em.version)) ELSE s
    IN  IF n = 0 \/ m = 0 THEN Ret(em, s, "ExtraEndNode")
        ELSE IF s.broken THEN Ret(em2, s, "Io")
        ELSE Ret(em2,
                 SinkSeek(SinkWrite(SinkSeek(s1, em.end_offset_pos_stack[m]),
                                    OffsetBytes(s, s.pos, WriterFieldWidth(em.version))),
                          s1.pos),
                 "Ok")

\* emit_end_node: the flag popped, the null record if it is set, then "Update
\* `end_offset`" at the offset popped from end_offset_pos_stack.
binary_emit_end_node(em, s) ==
    LET n == Len(em.null_record_necessities)
        m == Len(em.end_offset_pos_stack)
        em1 == [em EXCEPT !.null_record_necessities = SubSeq(@, 1, n - 1)]
        em2 == [em1 EXCEPT !.end_offset_pos_stack = SubSeq(@, 1, m - 1)]
        s1 == IF em.null_record_necessities[n]
              THEN SinkWrite(s, WriterNullRecord(em.version)) ELSE s
        last_pos == s.pos + (IF em.null_record_necessities[n]
                             THEN Len(WriterNullRecord(em.version)) ELSE 0)
    IN  IF n = 0 THEN Ret(em, s, "ExtraEndNode")
        ELSE IF s.broken THEN Ret(em1, s, "Io")
        ELSE IF m = 0 THEN Ret(em1, s1, "Panic")
        ELSE IF em.version < 7500 /\ OffsetExceedsU32(s, last_pos)
        THEN Ret(em2, SinkSeek(s1, em.end_offset_pos_stack[m]), "DataTooLarge")
        ELSE Ret(em2,
                 SinkSeek(SinkWrite(SinkSeek(s1, em.end_offset_pos_stack[m]),
                                    OffsetBytes(s, last_pos, WriterFieldWidth(em.version))),
                          last_pos),
                 "Ok")

----------------------------------------------------------------------------
(* AsciiEmitter (writer/emitter/ascii.rs).  Text is written as its bytes.  *)

\* format_args!("{}", v) of an integer.
RECURSIVE Digits(_)
Digits(n) == IF n < 10 THEN <<48 + n>> ELSE Digits(n \div 10) \o <<48 + (n % 10)>>

Decimal(v) == IF v < 0 THEN <<45>> \o Digits(0 - v) ELSE Digits(v)

\* 1.5f32 as its bit pattern, 0x3FC00000.
F32OneAndHalf == 1020 * 1048576

\* The floating-point values whose Display text the model knows: 0.0 and 1.5f32.
FloatKnown(tag, bits) == bits = 0 \/ (tag \in {"F32", "VecF32"} /\ bits = F32OneAndHalf)

\* format_args!("{}", v) of a float given by its bit pattern.
FloatText(tag, bits) ==
    IF bits = 0 THEN <<48>> ELSE <<49, 46, 53>>

\* rustc_serialize's to_base64(STANDARD): the standard alphabet, padded.
Base64Char(i) ==
    IF i < 26 THEN 65 + i
    ELSE IF i < 52 THEN 97 + (i - 26)
    ELSE IF i < 62 THEN 48 + (i - 52)
    ELSE IF i = 62 THEN 43 ELSE 47

RECURSIVE ToBase64(_)
ToBase64(b) ==
    IF b = <<>> THEN <<>>
    ELSE IF Len(b) = 1 THEN
        <<Base64Char(b[1] \div 4), Base64Char((b[1] % 4) * 16), 61, 61>>
    ELSE IF Len(b) = 2 THEN
        <<Base64Char(b[1] \div 4), Base64Char((b[1] % 4) * 16 + b[2] \div 16),
          Base64Char((b[2] % 16) * 4), 61>>
    ELSE <<Base64Char(b[1] \div 4), Base64Char((b[1] % 4) * 16 + b[2] \div 16),
           Base64Char((b[2] % 16) * 4 + b[3] \div 64), Base64Char(b[3] % 64)>>
         \o ToBase64(SubSeq(b, 4, Len(b)))

\* fn indent: one tab per level.
Indent(depth) == [i \in 1..depth |-> 9]

\* The elements of an array, comma separated.
RECURSIVE JoinElements(_, _)
JoinElements(tag, vec) ==
    LET one(v) == IF tag = "VecBool" THEN <<BoolByte(v)>>
                  ELSE IF tag \in {"VecF32", "VecF64"} THEN FloatText(tag, v)
                  ELSE Decimal(v)
    IN  IF vec = <<>> THEN <<>>
        ELSE IF Len(vec) = 1 THEN one(vec[1])
        ELSE JoinElements(tag, SubSeq(vec, 1, Len(vec) - 1)) \o <<44>> \o one(vec[Len(vec)])

\* The characters of a string, with the substitutions for '"', '\n' and '\r'.
RECURSIVE EscapeString(_)
EscapeString(v) ==
    IF v = <<>> THEN <<>>
    ELSE (IF v[1] = 34 THEN <<38, 113, 117, 111, 116, 59>>
          ELSE IF v[1] = 10 THEN <<38, 108, 102, 59>>
          ELSE IF v[1] = 13 THEN <<38, 99, 114, 59>>
          ELSE <<v[1]>>) \o EscapeString(Tail(v))

\* fn print_property: the text of one property.
PropertyText(property, prop_depth) ==
    CASE property.tag = "Bool" -> <<BoolByte(property.val[1])>>
      [] property.tag \in {"I16", "I32", "I64"} -> Decimal(property.val[1])
      [] property.tag \in {"F32", "F64"} -> FloatText(property.tag, property.val[1])
      [] property.tag \in {"VecBool", "VecI32", "VecI64", "VecF32", "VecF64"} ->
            <<42>> \o Decimal(Len(property.val)) \o <<32, 123, 10>>
            \o Indent(prop_depth) \o <<97, 58, 32>>
            \o JoinElements(property.tag, property.val) \o <<10>>
            \o Indent(prop_depth - 1) \o <<125>>
      [] property.tag = "String" -> <<34>> \o EscapeString(property.val) \o <<34>>
      [] property.tag = "Binary" -> <<34>> \o ToBase64(property.val) \o <<34>>

\* The properties of a node, separated by ", ".
RECURSIVE PropertiesText(_, _)
PropertiesText(properties, prop_depth) ==
    IF properties = <<>> THEN <<>>
    ELSE (IF Len(properties) = 1 THEN <<>>
          ELSE PropertiesText(SubSeq(properties, 1, Len(properties) - 1), prop_depth)
               \o <<44, 32>>)
         \o PropertyText(properties[Len(properties)], prop_depth)

AsciiEmitterNew(em) == [em EXCEPT !.prop_child_existence = <<>>]

ascii_emit_start_fbx(em, s, ver) ==
    IF ver < 7000 \/ ver >= 8000 THEN Ret(em, s, "UnsupportedFbxVersion")
    ELSE IF s.broken THEN Ret(em, s, "Io")
    ELSE LET major == ver \div 1000
             minor == (ver % 1000) \div 100
             revision == (ver % 1000) % 100
         IN  Ret(em,
                 SinkWrite(s, <<59, 32, 70, 66, 88, 32>> \o Decimal(major) \o <<46>>
                              \o Decimal(minor) \o <<46>> \o Decimal(revision)
                              \o <<32, 112, 114, 111, 106, 101, 99, 116, 32, 102, 105, 108,
                                   101, 10>>),
                 "Ok")

ascii_emit_end_fbx(em, s) == Ret(em, s, "Ok")

ascii_emit_start_node(em, s, name, properties) ==
    LET st == em.prop_child_existence
        n == Len(st)
        first_child == n > 0 /\ ~st[n][2]
        s1 == IF first_child THEN SinkWrite(s, <<32, 123, 10>>) ELSE s
        st1 == IF n > 0 THEN [st EXCEPT ![n] = <<st[n][1], TRUE>>] ELSE st
        s2 == SinkWrite(s1, Indent(Len(st1)))
        st2 == Append(st1, <<properties # <<>>, FALSE>>)
        s3 == SinkWrite(s2, name \o <<58, 32>>)
        s4 == SinkWrite(s3, PropertiesText(properties, Len(st2)))
    IN  IF s.broken
        THEN Ret([em EXCEPT !.prop_child_existence =
                                IF first_child THEN SubSeq(st, 1, n - 1)
                                ELSE IF n > 0 THEN st1 ELSE st2], s, "Io")
        ELSE Ret([em EXCEPT !.prop_child_existence = st2], s4, "Ok")

\* A variant of emit_end_node that closes every node with a brace on a line of its own.
AsciiEndNodeBraceAlways(em, s) ==
    LET st == em.prop_child_existence
        n == Len(st)
        em1 == [em EXCEPT !.prop_child_existence = SubSeq(st, 1, n - 1)]
    IN  IF n = 0 THEN Ret(em, s, "Panic")
        ELSE IF s.broken THEN Ret(em1, s, "Io")
        ELSE Ret(em1, SinkWrite(SinkWrite(s, Indent(n - 1)), <<125, 10>>), "Ok")

ascii_emit_end_node(em, s) ==
    LET st == em.prop_child_existence
        n == Len(st)
        prop_exist == st[n][1]
        child_exist == st[n][2]
        em1 == [em EXCEPT !.prop_child_existence = SubSeq(st, 1, n - 1)]
        s1 == IF ~prop_exist /\ ~child_exist THEN SinkWrite(s, <<32, 123, 10>>) ELSE s
        s2 == SinkWrite(SinkWrite(s1, Indent(n - 1)), <<125, 10>>)
    IN  IF n = 0 THEN Ret(em, s, "Panic")
        ELSE IF s.broken THEN Ret(em1, s, "Io")
        ELSE IF ~prop_exist \/ child_exist THEN Ret(em1, s2, "Ok")
        ELSE Ret(em1, SinkWrite(s, <<10>>), "Ok")

\* str::lines: the text split at line feeds, a carriage return before one dropped, no
\* empty line after the last line feed.
RECURSIVE Lines(_, _)
Lines(text, line) ==
    LET strip(l) == IF l # <<>> /\ l[Len(l)] = 13 THEN SubSeq(l, 1, Len(l) - 1) ELSE l
    IN  IF text = <<>> THEN (IF line = <<>> THEN <<>> ELSE <<line>>)
        ELSE IF text[1] = 10 THEN <<strip(line)>> \o Lines(Tail(text), <<>>)
        ELSE Lines(Tail(text), Append(line, text[1]))

RECURSIVE CommentText(_, _)
CommentText(lines, depth) ==
    IF lines = <<>> THEN <<>>
    ELSE Indent(depth) \o Head(lines) \o <<10>> \o CommentText(Tail(lines), depth)

ascii_emit_comment(em, s, comment) ==
    IF Lines(comment, <<>>) = <<>> THEN Ret(em, s, "Ok")
    ELSE IF s.broken THEN Ret(em, s, "Io")
    ELSE Ret(em, SinkWrite(s, CommentText(Lines(comment, <<>>), Len(em.prop_child_existence))),
             "Ok")

----------------------------------------------------------------------------
(* Emitter (writer/emitter/mod.rs) and writer::Error (writer/error.rs).    *)

EmitterNew ==
    [state |-> "Initial", final_result |-> "None",
     version |-> 0, pos |-> 0, end_offset_pos_stack |-> <<>>, null_record_necessities |-> <<>>,
     prop_child_existence |-> <<>>]

\* impl Clone for Error: Io and Unimplemented are rebuilt; the last arm, `ref e =>
\* e.clone()`, calls Error::clone on the same value again and never returns.
ErrorCloneReturns(kind) == kind \in {"Io", "Unimplemented"}

\* What an arm of the match in write yields: [em, sink, res, early], early when the arm
\* returns from write itself.
Arm(r, early) == [em |-> r.em, sink |-> r.sink, res |-> r.res, early |-> early]

\* `self.state = EmitterState::Binary(emitter)` / `Ascii(emitter)` after emit_start_fbx.
Started(r, state) == Arm(Ret([r.em EXCEPT !.state = state], r.sink, r.res), FALSE)

\* The match on the emitter's state and the event.
Dispatch(em, cfg, s, event) ==
    CASE em.state = "Initial" ->
          IF event.type = "StartFbx" /\ event.format.kind = "Binary" THEN
              IF cfg.fbx_version # <<>> /\ event.format.version # cfg.fbx_version[1]
              THEN Arm(Ret(em, s, "InvalidOption"), TRUE)
              ELSE Started(binary_emit_start_fbx(BinaryEmitterNew(em, event.format.version),
                                                 s, event.format.version),
                           "Binary")
          ELSE IF event.type = "StartFbx" /\ event.format.kind = "Ascii" THEN
              Started(IF cfg.fbx_version # <<>>
                      THEN ascii_emit_start_fbx(AsciiEmitterNew(em), s, cfg.fbx_version[1])
                      ELSE Ret(AsciiEmitterNew(em), s, "InvalidOption"),
                      "Ascii")
          ELSE Arm(Ret(em, s, "FbxNotStarted"), FALSE)
      [] em.state = "Binary" ->
          Arm(CASE event.type = "StartFbx" -> Ret(em, s, "FbxAlreadyStarted")
                [] event.type = "EndFbx" -> binary_emit_end_fbx(em, s)
                [] event.type = "StartNode" ->
                      binary_emit_start_node(em, s, event.name, event.properties)
                [] event.type = "EndNode" -> binary_emit_end_node(em, s)
                [] event.type = "Comment" ->
                      IF cfg.ignore_minor_errors THEN Ret(em, s, "Ok")
                      ELSE Ret(em, s, "UnwritableEvent"),
              FALSE)
      [] em.state = "Ascii" ->
          Arm(CASE event.type = "StartFbx" -> Ret(em, s, "FbxAlreadyStarted")
                [] event.type = "EndFbx" -> ascii_emit_end_fbx(em, s)
                [] event.type = "StartNode" ->
                      ascii_emit_start_node(em, s, event.name, event.properties)
                [] event.type = "EndNode" -> ascii_emit_end_node(em, s)
                [] event.type = "Comment" -> ascii_emit_comment(em, s, event.text),
              FALSE)

\* What write yields: [em, sink, res, returned].
Written(em, s, res, returned) == [em |-> em, sink |-> s, res |-> res, returned |-> returned]

\* The end of Emitter::write: an Err of the match is cloned into common.final_result.
\* returned is FALSE when the call never comes back to its caller (a panic, or
\* Error::clone recursing without end).
LatchResult(d) ==
    IF d.early \/ d.res = "Ok" THEN Written(d.em, d.sink, d.res, TRUE)
    ELSE IF d.res = "Panic" \/ ~ErrorCloneReturns(d.res)
         THEN Written(d.em, d.sink, d.res, FALSE)
    ELSE Written([d.em EXCEPT !.final_result = d.res], d.sink, d.res, TRUE)

\* Emitter::write.
EmitterWrite(em, cfg, s, event) ==
    IF em.final_result # "None"
    THEN Written(em, s, em.final_result, ErrorCloneReturns(em.final_result))
    ELSE LatchResult(Dispatch(em, cfg, s, event))

----------------------------------------------------------------------------
(* The reader's source and the read macros (reader/parser/macros.rs).  A   *)
(* source is [bytes, cur]: cur bytes have been consumed.  A read yields    *)
(* [ok, v, src, pos, kind, epos]: the value, the source and common.pos     *)
(* after it, and on failure the error's kind and position.                 *)

NoEvent == Event("None", NoFormat, <<>>, <<>>, <<>>)

OkResult(event) == [tag |-> "Ok", event |-> event, pos |-> 0, kind |-> "None"]
ErrResult(pos, kind) == [tag |-> "Err", event |-> NoEvent, pos |-> pos, kind |-> kind]
NoResult == [tag |-> "None", event |-> NoEvent, pos |-> 0, kind |-> "None"]
\* Not a value the code returns: the call panicked.
PanicResult == [tag |-> "Panic", event |-> NoEvent, pos |-> 0, kind |-> "None"]

Read(ok, v, src, pos, kind) ==
    [ok |-> ok, v |-> v, src |-> src, pos |-> pos, kind |-> kind, epos |-> pos]

\* A failed read whose error carries the position epos while common.pos is pos.
ReadErrAt(src, pos, epos, kind) ==
    [ok |-> FALSE, v |-> <<>>, src |-> src, pos |-> pos, kind |-> kind, epos |-> epos]

Remaining(src) == Len(src.bytes) - src.cur

\* pos + n for a u64 pos, kept within the model's integers.
AddPos(pos, n) == IF n >= Huge - pos THEN Huge ELSE pos + n

\* try_read_le_u8! .. try_read_le_f64!: n bytes or an I/O error (unexpected end of
\* file) at the unchanged pos; pos advances by n on success only.
ReadFixed(src, pos, n) ==
    IF Remaining(src) >= n
    THEN Read(TRUE, SubSeq(src.bytes, src.cur + 1, src.cur + n),
              [src EXCEPT !.cur = @ + n], pos + n, "None")
    ELSE Read(FALSE, <<>>, [src EXCEPT !.cur = Len(src.bytes)], pos, "Io")

\* try_read_exact!: take(len).read_to_end; fewer bytes than len is UnexpectedEof.
ReadExact(src, pos, len) ==
    IF Remaining(src) >= len
    THEN Read(TRUE, SubSeq(src.bytes, src.cur + 1, src.cur + len),
              [src EXCEPT !.cur = @ + len], pos + len, "None")
    ELSE Read(FALSE, <<>>, [src EXCEPT !.cur = Len(src.bytes)], pos, "UnexpectedEof")

\* Whether the bytes are well-formed UTF-8 (what read_to_string and from_utf8 accept).
RECURSIVE IsUtf8(_)
IsUtf8(b) ==
    LET cont(i) == i <= Len(b) /\ b[i] >= 128 /\ b[i] <= 191
    IN  IF b = <<>> THEN TRUE
        ELSE IF b[1] < 128 THEN IsUtf8(Tail(b))
        ELSE IF b[1] >= 194 /\ b[1] <= 223
             THEN cont(2) /\ IsUtf8(SubSeq(b, 3, Len(b)))
        ELSE IF b[1] >= 224 /\ b[1] <= 239
             THEN /\ cont(2) /\ cont(3)
                  /\ (b[1] = 224 => b[2] >= 160)
                  /\ (b[1] = 237 => b[2] <= 159)
                  /\ IsUtf8(SubSeq(b, 4, Len(b)))
        ELSE IF b[1] >= 240 /\ b[1] <= 244
             THEN /\ cont(2) /\ cont(3) /\ cont(4)
                  /\ (b[1] = 240 => b[2] >= 144)
                  /\ (b[1] = 244 => b[2] <= 143)
                  /\ IsUtf8(SubSeq(b, 5, Len(b)))
        ELSE FALSE

\* try_read_fixstr!: take(len).read_to_string; bytes that are not UTF-8 are an I/O error
\* (invalid data), fewer bytes than len is UnexpectedEof.
ReadFixStr(src, pos, len) ==
    LET got == SubSeq(src.bytes, src.cur + 1, src.cur + Min(len, Remaining(src)))
        src1 == [src EXCEPT !.cur = @ + Len(got)]
    IN  IF ~IsUtf8(got) THEN Read(FALSE, <<>>, src1, pos, "Io")
        ELSE IF Len(got) # len THEN Read(FALSE, <<>>, src1, pos, "UnexpectedEof")
        ELSE Read(TRUE, got, src1, pos + len, "None")

----------------------------------------------------------------------------
(* BinaryParser (reader/parser/binary.rs).                                 *)

\* read_i64 / read_f64: the signed value; a value outside the model's integers is read
\* as Huge or -Huge.
LeI64(b) ==
    IF \A i \in 5..8 : b[i] = 0 THEN (IF b[4] >= 128 THEN Huge ELSE LeSigned(SubSeq(b, 1, 4)))
    ELSE IF \A i \in 5..8 : b[i] = 255
         THEN (IF b[4] < 128 THEN 0 - Huge ELSE LeSigned(SubSeq(b, 1, 4)))
    ELSE IF b[8] >= 128 THEN 0 - Huge ELSE Huge

\* The width of end_offset, num_properties and property_list_len the reader reads.
ReaderFieldWidth(version) == 4

\* Fixed-width fields read one after the other, each with try!: the values of all of
\* them, or the first read that fails.
RECURSIVE ReadFields(_, _, _, _)
\* The rest of the fields after one read.
ReadFieldsAfter(r, widths, values) ==
    IF ~r.ok THEN r ELSE ReadFields(r.src, r.pos, widths, Append(values, r.v))

ReadFields(src, pos, widths, values) ==
    IF widths = <<>> THEN Read(TRUE, values, src, pos, "None")
    ELSE ReadFieldsAfter(ReadFixed(src, pos, Head(widths)), Tail(widths), values)

\* The NodeRecordHeader of the four fields read.
NodeRecordHeaderOf(r) ==
    IF ~r.ok THEN r
    ELSE Read(TRUE,
              [end_offset |-> LeU32(Take(r.v[1], 4)), num_properties |-> LeU32(Take(r.v[2], 4)),
               property_list_len |-> LeU32(Take(r.v[3], 4)), name_len |-> r.v[4][1]],
              r.src, r.pos, "None")

\* NodeRecordHeader::read.
NodeRecordHeaderRead(src, pos, version) ==
    NodeRecordHeaderOf(ReadFields(src, pos,
                                  <<ReaderFieldWidth(version), ReaderFieldWidth(version),
                                    ReaderFieldWidth(version), 1>>,
                                  <<>>))

\* NodeRecordHeader::is_null_record.
is_null_record(h) ==
    h.end_offset = 0 /\ h.num_properties = 0 /\ h.property_list_len = 0 /\ h.name_len = 0

\* The PropertyArrayHeader of the three fields read.
PropertyArrayHeaderOf(r) ==
    IF ~r.ok THEN r
    ELSE Read(TRUE,
              [array_length |-> LeU32(r.v[1]), encoding |-> LeU32(r.v[2]),
               compressed_length |-> LeU32(r.v[3])],
              r.src, r.pos, "None")

\* PropertyArrayHeader::read.
PropertyArrayHeaderRead(src, pos) ==
    PropertyArrayHeaderOf(ReadFields(src, pos, <<4, 4, 4>>, <<>>))

ArrayTag(type_code) ==
    CASE type_code = 102 -> "VecF32" [] type_code = 100 -> "VecF64"
      [] type_code = 108 -> "VecI64" [] type_code = 105 -> "VecI32"
      [] type_code = 98 -> "VecBool"

ElementWidth(type_code) ==
    CASE type_code = 102 -> 4 [] type_code = 100 -> 8
      [] type_code = 108 -> 8 [] type_code = 105 -> 4
      [] type_code = 98 -> 1

\* The elements decoded from their plain bytes.
RECURSIVE DecodeElements(_, _)
DecodeElements(data, type_code) ==
    LET w == ElementWidth(type_code)
        one == SubSeq(data, 1, w)
    IN  IF data = <<>> THEN <<>>
        ELSE <<IF w = 1 THEN one[1] % 2 ELSE IF w = 4 THEN LeSigned(one) ELSE LeI64(one)>>
             \o DecodeElements(SubSeq(data, w + 1, Len(data)), type_code)

\* A variant of read_property_value_array that takes an encoding other than 0 for
\* zlib: it reads no element and reports what a ZlibDecoder does on bad data.
ArrayNotRead(src, pos, type_code, h) ==
    IF h.encoding = 0 /\ h.array_length = 0
    THEN Read(TRUE, Prop(ArrayTag(type_code), <<>>), src, pos, "None")
    ELSE Read(FALSE, <<>>, src, pos, "Io")

\* read_property_value_array.  Encoding 0 reads the elements from the source; encoding 1
\* reads them through a ZlibDecoder over reader.take(compressed_length), which fills its
\* buffer from the source at the first read asked of it (and reads nothing when no
\* element is asked for), and pos advances by compressed_length.
read_property_value_array(src, pos, type_code, h) ==
    LET w == ElementWidth(type_code)
        n == h.array_length
        fits(avail) == n <= avail /\ n * w <= avail
    IN  IF h.encoding = 0 THEN
            IF fits(Remaining(src))
            THEN Read(TRUE,
                      Prop(ArrayTag(type_code),
                           DecodeElements(SubSeq(src.bytes, src.cur + 1, src.cur + n * w),
                                          type_code)),
                      [src EXCEPT !.cur = @ + n * w], pos + n * w, "None")
            ELSE Read(FALSE, <<>>, [src EXCEPT !.cur = Len(src.bytes)], pos, "Io")
        ELSE IF h.encoding = 1 THEN
            LET taken == Min(h.compressed_length, Min(Remaining(src), 32768))
                comp == SubSeq(src.bytes, src.cur + 1, src.cur + taken)
                d == IF fits(taken) THEN ZlibDecode(comp, n * w)
                     ELSE [ok |-> FALSE, data |-> <<>>]
            IN  IF n = 0
                THEN Read(TRUE, Prop(ArrayTag(type_code), <<>>), src,
                          AddPos(pos, h.compressed_length), "None")
                ELSE IF d.ok
                THEN Read(TRUE, Prop(ArrayTag(type_code), DecodeElements(d.data, type_code)),
                          [src EXCEPT !.cur = @ + taken],
                          AddPos(pos, h.compressed_length), "None")
                ELSE Read(FALSE, <<>>, [src EXCEPT !.cur = @ + taken], pos, "Io")
        ELSE Read(FALSE, <<>>, src, pos, "UnexpectedValue")

\* The largest byte read_property takes for an ASCII type code.
TypeCodeLimit == 128

\* The PropertyValue of a payload read with try!: the LSB of a boolean, the signed
\* value of a number, the bytes of a string or of raw data.
PropertyOf(tag, r) ==
    IF ~r.ok THEN r
    ELSE Read(TRUE,
              Prop(tag, CASE tag = "Bool" -> <<r.v[1] % 2>>
                          [] tag \in {"I16", "I32", "F32"} -> <<LeSigned(r.v)>>
                          [] tag \in {"I64", "F64"} -> <<LeI64(r.v)>>
                          [] tag \in {"String", "Binary"} -> r.v),
              r.src, r.pos, "None")

\* 'S' and 'R' after their length is read.
SizedProperty(tag, length) ==
    IF ~length.ok THEN length
    ELSE PropertyOf(tag, IF tag = "String"
                         THEN ReadFixStr(length.src, length.pos, LeU32(length.v))
                         ELSE ReadExact(length.src, length.pos, LeU32(length.v)))

\* 'f', 'd', 'l', 'i' and 'b' after their array header is read.
ArrayProperty(type_code, array_header) ==
    IF ~array_header.ok THEN array_header
    ELSE read_property_value_array(array_header.src, array_header.pos, type_code,
                                   array_header.v)

\* read_property after the type code is read.
PropertyValue(t) ==
    IF ~t.ok THEN t
    ELSE IF t.v[1] > TypeCodeLimit THEN ReadErrAt(t.src, t.pos, t.pos - 1, "DataError")
    ELSE CASE t.v[1] = 67 -> PropertyOf("Bool", ReadFixed(t.src, t.pos, 1))
           [] t.v[1] = 89 -> PropertyOf("I16", ReadFixed(t.src, t.pos, 2))
           [] t.v[1] = 73 -> PropertyOf("I32", ReadFixed(t.src, t.pos, 4))
           [] t.v[1] = 70 -> PropertyOf("F32", ReadFixed(t.src, t.pos, 4))
           [] t.v[1] = 68 -> PropertyOf("F64", ReadFixed(t.src, t.pos, 8))
           [] t.v[1] = 76 -> PropertyOf("I64", ReadFixed(t.src, t.pos, 8))
           [] t.v[1] \in {102, 100, 108, 105, 98} ->
                  ArrayProperty(t.v[1], PropertyArrayHeaderRead(t.src, t.pos))
           [] t.v[1] = 83 -> SizedProperty("String", ReadFixed(t.src, t.pos, 4))
           [] t.v[1] = 82 -> SizedProperty("Binary", ReadFixed(t.src, t.pos, 4))
           [] OTHER -> Read(FALSE, <<>>, t.src, t.pos, "UnexpectedValue")

\* read_property.
read_property(src, pos) == PropertyValue(ReadFixed(src, pos, 1))

\* The loop over num_properties in BinaryParser::next.
RECURSIVE ReadProperties(_, _, _, _)
\* The rest of the loop after one property is read.
ReadPropertiesAfter(r, n, properties) ==
    IF ~r.ok THEN r ELSE ReadProperties(r.src, r.pos, n, Append(properties, r.v))

ReadProperties(src, pos, n, properties) ==
    IF n = 0 THEN Read(TRUE, properties, src, pos, "None")
    ELSE ReadPropertiesAfter(read_property(src, pos), n - 1, properties)

\* What a pull yields: the parser and the source after it and the result.
Pulled(p, src, result) == [parser |-> p, src |-> src, result |-> result]

\* A read failed with try!: the error, common.pos and the source as the read left them.
Failed(p, r) == Pulled([p EXCEPT !.pos = r.pos], r.src, ErrResult(r.epos, r.kind))

\* The end of BinaryParser::next: the StartNode once the properties are read.
NodeOf(p, name, props) ==
    IF ~props.ok THEN Failed(p, props)
    ELSE Pulled([p EXCEPT !.pos = props.pos], props.src, OkResult(StartNode(name, props.v)))

\* BinaryParser::next after end_offset is pushed: the name, then the properties.
NodeAfterName(p, num_properties, name) ==
    IF ~name.ok THEN Failed(p, name)
    ELSE NodeOf(p, name.v, ReadProperties(name.src, name.pos, num_properties, <<>>))

\* A variant of the part of BinaryParser::next after the header that takes every null
\* record for the end of the file and leaves end_offset_stack as it is.
NodeAfterHeaderFlat(p, h) ==
    IF ~h.ok THEN Failed(p, h)
    ELSE IF is_null_record(h.v) THEN Pulled([p EXCEPT !.pos = h.pos], h.src, OkResult(EndFbx))
    ELSE NodeAfterName([p EXCEPT !.end_offset_stack = Append(@, h.v.end_offset)],
                       h.v.num_properties, ReadFixStr(h.src, h.pos, h.v.name_len))

\* A variant of the part of BinaryParser::next after the header that takes a null
\* record for the end of the innermost node wherever it stands.
NodeAfterHeaderUnchecked(p, h) ==
    LET st == p.end_offset_stack
        n == Len(st)
    IN  IF ~h.ok THEN Failed(p, h)
        ELSE IF is_null_record(h.v) THEN
            IF n > 0
            THEN Pulled([p EXCEPT !.end_offset_stack = SubSeq(st, 1, n - 1), !.pos = h.pos],
                        h.src, OkResult(EndNode))
            ELSE Pulled([p EXCEPT !.pos = h.pos], h.src, OkResult(EndFbx))
        ELSE NodeAfterName([p EXCEPT !.end_offset_stack = Append(st, h.v.end_offset)],
                           h.v.num_properties, ReadFixStr(h.src, h.pos, h.v.name_len))

\* BinaryParser::next after the node record header is read.
NodeAfterHeader(p, h) ==
    LET st == p.end_offset_stack
        n == Len(st)
        popped == [p EXCEPT !.end_offset_stack = SubSeq(st, 1, n - 1), !.pos = h.pos]
    IN  IF ~h.ok THEN Failed(p, h)
        ELSE IF is_null_record(h.v) THEN
            IF n > 0 THEN
                IF h.pos = st[n] THEN Pulled(popped, h.src, OkResult(EndNode))
                ELSE Pulled(popped, h.src, ErrResult(h.pos, "DataError"))
            ELSE Pulled([p EXCEPT !.pos = h.pos], h.src, OkResult(EndFbx))
        ELSE NodeAfterName([p EXCEPT !.end_offset_stack = Append(st, h.v.end_offset)],
                           h.v.num_properties, ReadFixStr(h.src, h.pos, h.v.name_len))

\* A variant of BinaryParser::next that reads a node record header on every pull,
\* whatever the top of end_offset_stack is.
BinaryParserNextAlwaysReads(p, src) ==
    NodeAfterHeader(p, NodeRecordHeaderRead(src, p.pos, p.version))

\* BinaryParser::next.
BinaryParserNext(p, src) ==
    LET st == p.end_offset_stack
        n == Len(st)
    IN  IF n > 0 /\ st[n] = p.pos
        THEN Pulled([p EXCEPT !.end_offset_stack = SubSeq(st, 1, n - 1)], src,
                    OkResult(EndNode))
        ELSE NodeAfterHeader(p, NodeRecordHeaderRead(src, p.pos, p.version))

----------------------------------------------------------------------------
(* AsciiParser (reader/parser/ascii.rs) and Parser (reader/parser/mod.rs). *)

\* A variant of AsciiParser::next that takes the end of the first line for the end of
\* the file.
AsciiParserEnds(p, src) == Pulled(p, src, OkResult(EndFbx))

\* AsciiParser::next.
AsciiParserNext(p, src) == Pulled(p, src, ErrResult(p.pos, "Unimplemented"))

ParserNew(ignore_comments) ==
    [ignore_comments |-> ignore_comments, pos |-> 0, final_result |-> NoResult,
     state |-> "Magic", version |-> 0, end_offset_stack |-> <<>>, buffer |-> <<>>]

BinaryMagic == <<75, 97, 121, 100, 97, 114, 97, 32, 70, 66, 88, 32,
                 66, 105, 110, 97, 114, 121, 32, 32>>

\* The first loop of magic_next: bytes up to the first NUL or line feed.
RECURSIVE ReadFirstLine(_, _, _)
\* The loop after one byte is read.
FirstLineAfter(c, first_line_bytes) ==
    IF ~c.ok THEN c
    ELSE IF c.v[1] = 0 \/ c.v[1] = 10
         THEN Read(TRUE, [line |-> first_line_bytes, magic_end_byte |-> c.v[1]],
                   c.src, c.pos, "None")
    ELSE ReadFirstLine(c.src, c.pos, Append(first_line_bytes, c.v[1]))

ReadFirstLine(src, pos, first_line_bytes) ==
    FirstLineAfter(ReadFixed(src, pos, 1), first_line_bytes)

\* magic_next after the version is read.
BinaryStarted(p, v) ==
    IF ~v.ok THEN Failed(p, v)
    ELSE Pulled([p EXCEPT !.pos = v.pos, !.state = "Binary", !.version = LeU32(v.v),
                          !.end_offset_stack = <<>>],
                v.src, OkResult(StartFbx(Binary(LeU32(v.v)))))

\* magic_next after the two bytes that follow the magic are read.
MagicVersion(p, t) ==
    IF ~t.ok THEN Failed(p, t) ELSE BinaryStarted(p, ReadFixed(t.src, t.pos, 4))

\* magic_next after the first line is read.
MagicAfterLine(p, l) ==
    IF ~l.ok THEN Failed(p, l)
    ELSE IF l.v.magic_end_byte = 0 THEN
        IF l.v.line = BinaryMagic THEN MagicVersion(p, ReadExact(l.src, l.pos, 2))
        ELSE Pulled([p EXCEPT !.pos = l.pos], l.src, ErrResult(l.pos, "InvalidMagic"))
    ELSE IF l.v.line = <<>>
         THEN Pulled([p EXCEPT !.pos = l.pos, !.state = "Panicked"], l.src, PanicResult)
    ELSE IF l.v.line[1] # 59 THEN
        IF ~IsUtf8(l.v.line)
        THEN Pulled([p EXCEPT !.pos = l.pos], l.src, ErrResult(l.pos, "Utf8Error"))
        ELSE Pulled([p EXCEPT !.pos = l.pos, !.state = "Ascii",
                              !.buffer = Append(l.v.line, 10)],
                    l.src, OkResult(StartFbx(Ascii)))
    ELSE Pulled([p EXCEPT !.pos = l.pos, !.state = "Ascii", !.buffer = <<>>],
                l.src, OkResult(StartFbx(Ascii)))

\* Parser::magic_next.
MagicNext(p, src) == MagicAfterLine(p, ReadFirstLine(src, p.pos, <<>>))

\* The sub parser the state selects.
SubParserNext(p, src) ==
    CASE p.state = "Magic" -> MagicNext(p, src)
      [] p.state = "Binary" -> BinaryParserNext(p, src)
      [] p.state = "Ascii" -> AsciiParserNext(p, src)

\* Whether a result ends the parsing: Ok(EndFbx) or Err(_).
IsFinal(result) ==
    result.tag = "Err" \/ (result.tag = "Ok" /\ result.event.type = "EndFbx")

\* A variant of the end of Parser::next that latches nothing.
NoLatch(p, result) == p

\* The result that is latched in common.final_result.
Latch(p, result) == IF IsFinal(result) THEN [p EXCEPT !.final_result = result] ELSE p

\* The end of Parser::next: the result is latched if it is final.
Latched(r) == Pulled(Latch(r.parser, r.result), r.src, r.result)

\* Parser::next (no sub parser returns a Comment, so the loop runs once).
ParserNext(p, src) ==
    IF p.final_result # NoResult THEN Pulled(p, src, p.final_result)
    ELSE Latched(SubParserNext(p, src))

NewSource(bytes) == [bytes |-> bytes, cur |-> 0]

----------------------------------------------------------------------------
(* Whole runs: the reader pulled to its terminal result, the writer fed a  *)
(* list of events (tests/binary-export-import.rs).                         *)

\* `for e in parser`: the results up to and including the first terminal one.
RECURSIVE PullAll(_, _, _)
\* The loop after one pull.
PullAllAfter(r, results) ==
    IF IsFinal(r.result) \/ r.result.tag = "Panic" THEN Append(results, r.result)
    ELSE PullAll(r.parser, r.src, Append(results, r.result))

PullAll(p, src, results) == PullAllAfter(ParserNext(p, src), results)

\* R: the results of reading `bytes` with a new EventReader.
ReadResults(bytes) == PullAll(ParserNew(FALSE), NewSource(bytes), <<>>)

\* The events of the Ok results, in order.
RECURSIVE OkEvents(_)
OkEvents(results) ==
    IF results = <<>> THEN <<>>
    ELSE (IF Head(results).tag = "Ok" THEN <<Head(results).event>> ELSE <<>>)
         \o OkEvents(Tail(results))

\* Whether the reader accepts the bytes: its pulls reach EndFbx without an error.
Accepted(results) ==
    results # <<>> /\ results[Len(results)].tag = "Ok"
    /\ results[Len(results)].event.type = "EndFbx"

\* FbxEvent::as_writer_event: the reader's event as the writer's event, the owned
\* properties borrowed.
as_writer_event(event) == event

\* `emitter.write(e.as_writer_event()).unwrap()` over the events: the sink, and ok
\* unless a write did not return Ok.
RECURSIVE WriteAllFrom(_, _, _, _)
\* The rest of the loop after one write.
WriteAllAfter(r, cfg, events) ==
    IF r.returned /\ r.res = "Ok" THEN WriteAllFrom(r.em, cfg, r.sink, events)
    ELSE [sink |-> r.sink, ok |-> FALSE]

WriteAllFrom(em, cfg, s, events) ==
    IF events = <<>> THEN [sink |-> s, ok |-> TRUE]
    ELSE WriteAllAfter(EmitterWrite(em, cfg, s, as_writer_event(Head(events))), cfg,
                       Tail(events))

\* EmitterConfig::new().
DefaultConfig == [ignore_minor_errors |-> TRUE, fbx_version |-> <<>>]

\* W: the bytes EventWriter::new(Cursor::new(Vec::new())) holds after the events.
WriteAll(events) == WriteAllFrom(EmitterNew, DefaultConfig, EmptySink(FALSE), events)

----------------------------------------------------------------------------
(* OwnedProperty and Property (common.rs): borrow and the safe             *)
(* conversions.  Both shapes are [tag, val]; an Option is [some, val] and  *)
(* the Result of an into_* is [ok, val, err], val the contents (one        *)
(* element for a scalar) and err the property an Err gives back.           *)

Some(v) == [some |-> TRUE, val |-> v]
None == [some |-> FALSE, val |-> <<>>]

\* `if v { 1 } else { 0 }` for each boolean of the contents.
BoolsToInts(val) == [i \in 1..Len(val) |-> IF val[i] = 1 THEN 1 ELSE 0]

\* i32::from / i64::from of each integer of the contents, w the width of the source in
\* bytes: the sign extension of its two's complement.
IntsFrom(val, w) == [i \in 1..Len(val) |-> LeSigned(LeBytes(val[i], w))]

\* `v as f32` and f64::from(v) of each float of the contents, for the floats the model
\* knows, 0.0 and 1.5: the bits of 1.5f64 are beyond the model's integers and read as
\* Huge.
FloatsAsF32(val) == [i \in 1..Len(val) |-> IF val[i] = 0 THEN 0 ELSE F32OneAndHalf]
FloatsFromF32(val) == [i \in 1..Len(val) |-> IF val[i] = 0 THEN 0 ELSE Huge]

\* OwnedProperty::borrow: every variant becomes the same variant of Property, over the
\* same contents.
borrow(p) ==
    CASE p.tag = "Bool" -> Prop("Bool", p.val)
      [] p.tag = "I16" -> Prop("I16", p.val)
      [] p.tag = "I32" -> Prop("I32", p.val)
      [] p.tag = "I64" -> Prop("I64", p.val)
      [] p.tag = "F32" -> Prop("F32", p.val)
      [] p.tag = "F64" -> Prop("F64", p.val)
      [] p.tag = "VecBool" -> Prop("VecBool", p.val)
      [] p.tag = "VecI32" -> Prop("VecI32", p.val)
      [] p.tag = "VecI64" -> Prop("VecI64", p.val)
      [] p.tag = "VecF32" -> Prop("VecF32", p.val)
      [] p.tag = "VecF64" -> Prop("VecF64", p.val)
      [] p.tag = "String" -> Prop("String", p.val)
      [] p.tag = "Binary" -> Prop("Binary", p.val)

\* base64::decode (the library is outside the repository): the standard alphabet with
\* padding.  The value of a character, -1 for one outside the alphabet.
Base64Value(c) ==
    IF c >= 65 /\ c <= 90 THEN c - 65
    ELSE IF c >= 97 /\ c <= 122 THEN c - 97 + 26
    ELSE IF c >= 48 /\ c <= 57 THEN c - 48 + 52
    ELSE IF c = 43 THEN 62
    ELSE IF c = 47 THEN 63
    ELSE 0 - 1

\* The bytes of one group of four characters, or <<-1>> for a malformed group; `last`
\* when nothing follows the group, which is where padding may stand.
Base64Group(q, last) ==
    LET a == Base64Value(q[1])
        b == Base64Value(q[2])
        c == Base64Value(q[3])
        d == Base64Value(q[4])
    IN  IF a < 0 \/ b < 0 THEN <<0 - 1>>
        ELSE IF q[3] = 61 THEN
            IF last /\ q[4] = 61 /\ b % 16 = 0 THEN <<a * 4 + b \div 16>> ELSE <<0 - 1>>
        ELSE IF c < 0 THEN <<0 - 1>>
        ELSE IF q[4] = 61 THEN
            IF last /\ c % 4 = 0
            THEN <<a * 4 + b \div 16, (b % 16) * 16 + c \div 4>>
            ELSE <<0 - 1>>
        ELSE IF d < 0 THEN <<0 - 1>>
        ELSE <<a * 4 + b \div 16, (b % 16) * 16 + c \div 4, (c % 4) * 64 + d>>

\* base64::decode(v).ok(): the bytes decoded so far in `done`.
RECURSIVE Base64Decode(_, _)
\* The rest of the text after one group is decoded.
Base64DecodeAfter(group, rest, done) ==
    IF group = <<0 - 1>> THEN None ELSE Base64Decode(rest, done \o group)

Base64Decode(v, done) ==
    IF v = <<>> THEN Some(done)
    ELSE IF Len(v) < 4 THEN None
    ELSE Base64DecodeAfter(Base64Group(SubSeq(v, 1, 4), Len(v) = 4), SubSeq(v, 5, Len(v)),
                           done)

\* OwnedProperty::get_bool.
OwnedProperty_get_bool(p) == IF p.tag = "Bool" THEN Some(p.val) ELSE None

\* OwnedProperty::get_i16.
OwnedProperty_get_i16(p) ==
    CASE p.tag = "Bool" -> Some(BoolsToInts(p.val))
      [] p.tag = "I16" -> Some(p.val)
      [] OTHER -> None

\* A variant of OwnedProperty::get_i32 that narrows an I64.
GetI32Narrowing(p) ==
    IF p.tag \in {"Bool", "I16", "I32", "I64"} THEN Some(p.val) ELSE None

\* OwnedProperty::get_i32.
OwnedProperty_get_i32(p) ==
    CASE p.tag = "Bool" -> Some(BoolsToInts(p.val))
      [] p.tag = "I16" -> Some(IntsFrom(p.val, 2))
      [] p.tag = "I32" -> Some(p.val)
      [] OTHER -> None

\* OwnedProperty::get_i64.
OwnedProperty_get_i64(p) ==
    CASE p.tag = "Bool" -> Some(BoolsToInts(p.val))
      [] p.tag = "I16" -> Some(IntsFrom(p.val, 2))
      [] p.tag = "I32" -> Some(IntsFrom(p.val, 4))
      [] p.tag = "I64" -> Some(p.val)
      [] OTHER -> None

\* OwnedProperty::get_f32.
OwnedProperty_get_f32(p) ==
    CASE p.tag = "F32" -> Some(p.val)
      [] p.tag = "F64" -> Some(FloatsAsF32(p.val))
      [] OTHER -> None

\* OwnedProperty::get_f64.
OwnedProperty_get_f64(p) ==
    CASE p.tag = "F32" -> Some(FloatsFromF32(p.val))
      [] p.tag = "F64" -> Some(p.val)
      [] OTHER -> None

\* OwnedProperty::get_vec_i32.
OwnedProperty_get_vec_i32(p) ==
    CASE p.tag = "VecBool" -> Some(BoolsToInts(p.val))
      [] p.tag = "VecI32" -> Some(p.val)
      [] OTHER -> None

\* OwnedProperty::get_vec_i64.
OwnedProperty_get_vec_i64(p) ==
    CASE p.tag = "VecBool" -> Some(BoolsToInts(p.val))
      [] p.tag = "VecI32" -> Some(IntsFrom(p.val, 4))
      [] p.tag = "VecI64" -> Some(p.val)
      [] OTHER -> None

\* OwnedProperty::get_binary.
OwnedProperty_get_binary(p, from_string) ==
    CASE p.tag = "String" -> (IF from_string THEN Base64Decode(p.val, <<>>) ELSE None)
      [] p.tag = "Binary" -> Some(p.val)
      [] OTHER -> None

Ok(v) == [ok |-> TRUE, val |-> v, err |-> Prop("None", <<>>)]
Err(p) == [ok |-> FALSE, val |-> <<>>, err |-> p]

\* A variant of OwnedProperty::into_vec_i64 that widens the low 16 bits of each i32.
IntoVecI64Short(p) ==
    IF p.tag \in {"VecBool", "VecI32", "VecI64"} THEN Ok(IntsFrom(p.val, 2)) ELSE Err(p)

\* OwnedProperty::into_vec_i64.
OwnedProperty_into_vec_i64(p) ==
    CASE p.tag = "VecBool" -> Ok(BoolsToInts(p.val))
      [] p.tag = "VecI32" -> Ok(IntsFrom(p.val, 4))
      [] p.tag = "VecI64" -> Ok(p.val)
      [] OTHER -> Err(p)

\* Property::get_bool.
Property_get_bool(p) == IF p.tag = "Bool" THEN Some(p.val) ELSE None

\* Property::get_i16.
Property_get_i16(p) ==
    CASE p.tag = "Bool" -> Some(BoolsToInts(p.val))
      [] p.tag = "I16" -> Some(p.val)
      [] OTHER -> None

\* Property::get_i32.
Property_get_i32(p) ==
    CASE p.tag = "Bool" -> Some(BoolsToInts(p.val))
      [] p.tag = "I16" -> Some(IntsFrom(p.val, 2))
      [] p.tag = "I32" -> Some(p.val)
      [] OTHER -> None

\* Property::get_i64.
Property_get_i64(p) ==
    CASE p.tag = "Bool" -> Some(BoolsToInts(p.val))
      [] p.tag = "I16" -> Some(IntsFrom(p.val, 2))
      [] p.tag = "I32" -> Some(IntsFrom(p.val, 4))
      [] p.tag = "I64" -> Some(p.val)
      [] OTHER -> None

\* Property::get_f32.
Property_get_f32(p) ==
    CASE p.tag = "F32" -> Some(p.val)
      [] p.tag = "F64" -> Some(FloatsAsF32(p.val))
      [] OTHER -> None

\* Property::get_f64.
Property_get_f64(p) ==
    CASE p.tag = "F32" -> Some(FloatsFromF32(p.val))
      [] p.tag = "F64" -> Some(p.val)
      [] OTHER -> None

\* Property::get_vec_i32.
Property_get_vec_i32(p) ==
    CASE p.tag = "VecBool" -> Some(BoolsToInts(p.val))
      [] p.tag = "VecI32" -> Some(p.val)
      [] OTHER -> None

\* Property::get_vec_i64.
Property_get_vec_i64(p) ==
    CASE p.tag = "VecBool" -> Some(BoolsToInts(p.val))
      [] p.tag = "VecI32" -> Some(IntsFrom(p.val, 4))
      [] p.tag = "VecI64" -> Some(p.val)
      [] OTHER -> None

\* Property::get_binary.
Property_get_binary(p, from_string) ==
    CASE p.tag = "String" -> (IF from_string THEN Base64Decode(p.val, <<>>) ELSE None)
      [] p.tag = "Binary" -> Some(p.val)
      [] OTHER -> None

----------------------------------------------------------------------------
(* The inputs of the model.                                                *)

NameA == <<65>>
NameB == <<66>>

\* The largest value of the u8 that `name.len() as u8` yields.
U8Max == 255

\* A name one byte longer than a u8 counts.
LongName == [i \in 1..(U8Max + 1) |-> 67]

Scalars ==
    <<Prop("Bool", <<1>>), Prop("I16", <<-2>>), Prop("I32", <<-7>>), Prop("I64", <<5>>),
      Prop("F32", <<F32OneAndHalf>>), Prop("F64", <<0>>),
      Prop("String", <<104, 105, 0>>), Prop("Binary", <<1, 255>>)>>

Arrays ==
    <<Prop("VecI32", <<1, -1, 2>>), Prop("VecI64", <<-3>>),
      Prop("VecF32", <<F32OneAndHalf, 0>>), Prop("VecF64", <<0>>)>>

\* The StartNode events the environment writes.
NodeChoices ==
    { StartNode(NameA, <<>>),
      StartNode(NameB, <<Prop("I32", <<1>>)>>),
      StartNode(NameA, Scalars \o Arrays),
      StartNode(NameB, <<Prop("VecBool", <<1, 0>>)>>),
      StartNode(NameB, <<Prop("VecI32", <<>>)>>),
      StartNode(LongName, <<>>) }

\* The formats of the StartFbx events the environment writes.
FormatChoices == {Binary(6999), Binary(7400), Binary(7500), Binary(8000), Ascii}

\* The comments the environment writes: "c\nd\n".
CommentChoices == {<<99, 10, 100, 10>>}

\* The formats of a StartFbx written after the stream has started.
RestartChoices == {Binary(7400), Ascii}

\* EmitterConfig::new().ignore_minor_errors(false).fbx_version(Some(7400)).
StrictConfig == [ignore_minor_errors |-> FALSE, fbx_version |-> <<7400>>]

\* The StartNode events written under StrictConfig.
StrictNodeChoices ==
    { StartNode(NameA, <<>>),
      StartNode(NameB, <<Prop("I32", <<1>>)>>),
      StartNode(NameA, Scalars \o Arrays) }

\* Whether the text of every float of the properties is known to the model.
FloatsKnown(properties) ==
    \A i \in 1..Len(properties) :
        properties[i].tag \in {"F32", "F64", "VecF32", "VecF64"} =>
            \A j \in 1..Len(properties[i].val) :
                FloatKnown(properties[i].tag, properties[i].val[j])

Count(events, type) == Cardinality({i \in 1..Len(events) : events[i].type = type})

----------------------------------------------------------------------------
(* The writer: EventWriter::write, one action per kind of event.           *)

NoWrite ==
    [event |-> NoEvent, sink |-> EmptySink(FALSE), emitter |-> EmitterNew, opened |-> <<>>]
NoPull == [parser |-> ParserNew(FALSE), source |-> NewSource(<<>>)]
NoProperty == Prop("None", <<>>)
NoCall == [call |-> "None", shape |-> "None", from_string |-> FALSE, res |-> None]

InitWith(cfg, sinks) ==
    /\ mode = "writer"
    /\ config = cfg
    /\ \E s \in sinks : sink = s
    /\ emitter = EmitterNew
    /\ aborted = FALSE
    /\ wresult = "None"
    /\ written = <<>>
    /\ wlast = NoWrite
    /\ opened = <<>>
    /\ source = NewSource(<<>>)
    /\ parser = ParserNew(FALSE)
    /\ pulled = <<>>
    /\ rlast = NoPull
    /\ finished = FALSE
    /\ yielded = <<>>
    /\ owned = NoProperty
    /\ converted = NoCall

\* The sinks the writer is given: a Cursor over a new vector, a sink that fails every
\* operation, a Cursor moved SinkStartOffset bytes past the end of a new vector, and a
\* file at the offset 2^32.
StartSinks == {EmptySink(FALSE), EmptySink(TRUE), SinkAt(SinkStartOffset, 0), SinkAt(0, 1)}

\* EventWriter::new(sink).
Init == InitWith(DefaultConfig, StartSinks)

\* StrictConfig.create_writer(sink).
InitC == InitWith(StrictConfig, {EmptySink(FALSE)})

\* A Comment written in the Binary state reaches no emit function.
Dropped(em, event) == em.state = "Binary" /\ event.type = "Comment"

\* The open nodes after an event is written: a StartNode is a child of the innermost
\* open node and becomes the innermost one, an EndNode ends the innermost one.
OpenedAfter(open, s, event) ==
    LET n == Len(open)
    IN  CASE event.type = "StartNode" ->
                Append(IF n > 0 THEN [open EXCEPT ![n].children = @ + 1] ELSE open,
                       [offset |-> s.pos, properties |-> event.properties, children |-> 0])
          [] event.type = "EndNode" -> SubSeq(open, 1, n - 1)
          [] OTHER -> open

\* EventWriter::write(event).
Write(event) ==
    /\ mode = "writer"
    /\ ~aborted
    /\ \E r \in {EmitterWrite(emitter, config, sink, event)} :
           /\ emitter' = r.em
           /\ sink' = r.sink
           /\ aborted' = ~r.returned
           /\ wresult' = IF r.returned THEN r.res ELSE "NoReturn"
           /\ written' = IF r.returned /\ r.res = "Ok" /\ ~Dropped(emitter, event)
                         THEN Append(written, event)
                         ELSE written
           /\ opened' = IF r.returned /\ r.res = "Ok" THEN OpenedAfter(opened, sink, event)
                        ELSE opened
    /\ wlast' = [event |-> event, sink |-> sink, emitter |-> emitter, opened |-> opened]
    /\ UNCHANGED <<mode, config>>
    /\ UNCHANGED readerVars
    /\ UNCHANGED propVars

WriteStartFbx ==
    \E f \in (IF emitter.state = "Initial" THEN FormatChoices ELSE RestartChoices) :
        Write(StartFbx(f))

WriteEndFbx ==
    /\ Len(written) < MaxEvents
    /\ Count(written, "EndFbx") < MaxEndFbx
    /\ Write(EndFbx)

WriteStartNode ==
    /\ Len(written) < MaxEvents
    /\ Count(written, "StartNode") < MaxNodes
    /\ \E e \in (IF config = DefaultConfig THEN NodeChoices ELSE StrictNodeChoices) :
          /\ emitter.state = "Ascii" => FloatsKnown(e.properties)
          /\ Write(e)

WriteEndNode ==
    /\ ~aborted
    /\ Write(EndNode)

WriteComment ==
    /\ Len(written) < MaxEvents
    /\ \E c \in CommentChoices : Write(Comment(c))

Next ==
    \/ WriteStartFbx
    \/ WriteEndFbx
    \/ WriteStartNode
    \/ WriteEndNode
    \/ WriteComment

Spec == Init /\ [][Next]_vars

SpecC == InitC /\ [][Next]_vars

----------------------------------------------------------------------------
(* The reader: EventReader::next pulled over a byte source.                *)

\* The 27 bytes before the first node record: magic, NUL, 0x1A 0x00, version.
FileHeader(version) == BinaryMagic \o <<0, 26, 0>> \o LeBytes(version, 4)

\* A node record with 32-bit header fields, no child and no null record, placed at
\* offset `at`: its properties are given as their bytes.
PlainNode(at, name, num_properties, property_bytes) ==
    LeBytes(at + 13 + Len(name) + Len(property_bytes), 4) \o LeBytes(num_properties, 4)
    \o LeBytes(Len(property_bytes), 4) \o <<Len(name)>> \o name \o property_bytes

\* An array property stored plain (encoding 0).
PlainArray(type_code, array_length, element_bytes) ==
    <<type_code>> \o LeBytes(array_length, 4) \o LeBytes(0, 4)
    \o LeBytes(Len(element_bytes), 4) \o element_bytes

\* A file of one node with a plain 'i' array and a plain 'b' array, as other exporters
\* write them.
PlainArraysFile(version) ==
    FileHeader(version)
    \o PlainNode(27, NameA, 2,
                 PlainArray(105, 2, LeBytes(1, 4) \o LeBytes(-1, 4))
                 \o PlainArray(98, 2, <<1, 0>>))
    \o Zeros(13)

\* The event lists whose written bytes are read back.
NestedEvents ==
    <<StartFbx(Binary(7400)), StartNode(NameA, <<>>),
      StartNode(NameB, <<Prop("I32", <<1>>)>>), EndNode, EndNode, EndFbx>>

AllPropertiesEvents ==
    <<StartFbx(Binary(7400)), StartNode(NameA, Scalars \o Arrays), EndNode, EndFbx>>

\* The files that are read as they are and with one byte replaced or the end cut off.
MutatedFiles ==
    { WriteAll(NestedEvents).sink.bytes, WriteAll(AllPropertiesEvents).sink.bytes,
      PlainArraysFile(7400) }

\* The values a replaced byte takes.
MutationBytes == {0, 1, 128, 129}

\* The events of a file without nodes.
EmptyEvents(version) == <<StartFbx(Binary(version)), EndFbx>>

\* First lines that are not the Binary magic (a comment line, an ordinary line, an
\* empty line, a line that is not UTF-8, a wrong magic), files of version 7500 (one
\* with 32-bit header fields and the writer's file without nodes), a file that ends
\* with its only null record, and the writer's file of a node with an empty array.
OtherFiles ==
    { <<59, 32, 70, 66, 88, 10>>, <<120, 10, 121>>, <<10>>, <<255, 10>>,
      <<75, 97, 121, 0>>, PlainArraysFile(7500), WriteAll(EmptyEvents(7500)).sink.bytes,
      FileHeader(7400) \o Zeros(13),
      WriteAll(<<StartFbx(Binary(7400)), StartNode(NameB, <<Prop("VecI32", <<>>)>>),
                 EndNode, EndFbx>>).sink.bytes }

\* The byte sources the environment offers.
ReaderInputs ==
    MutatedFiles \cup OtherFiles
    \cup { [f EXCEPT ![i] = b] : <<f, i, b>> \in
             { <<g, j, c>> \in MutatedFiles \X (1..500) \X MutationBytes : j <= Len(g) } }
    \cup UNION { { SubSeq(f, 1, n) : n \in 0..Len(f) } : f \in MutatedFiles }

InitReading(m) ==
    /\ mode = m
    /\ config = DefaultConfig
    /\ sink = EmptySink(FALSE)
    /\ emitter = EmitterNew
    /\ aborted = FALSE
    /\ wresult = "None"
    /\ written = <<>>
    /\ wlast = NoWrite
    /\ opened = <<>>
    /\ \E bytes \in ReaderInputs : source = NewSource(bytes)
    /\ \E ignore_comments \in BOOLEAN : parser = ParserNew(ignore_comments)
    /\ pulled = <<>>
    /\ rlast = NoPull
    /\ finished = FALSE
    /\ yielded = <<>>
    /\ owned = NoProperty
    /\ converted = NoCall

\* EventReader::new(source) / ParserConfig::create_reader(source).
InitR == InitReading("reader")

\* How many of the results are final ones.
FinalCount(results) == Cardinality({i \in 1..Len(results) : IsFinal(results[i])})

\* Whether the caller pulls: a reader that panicked is gone, and the pulls after the
\* terminal result are bounded.
CanPull ==
    /\ mode = "reader"
    /\ parser.state # "Panicked"
    /\ FinalCount(pulled) <= MaxExtraPulls

\* EventReader::next.
Pull ==
    /\ CanPull
    /\ \E r \in {ParserNext(parser, source)} :
           /\ parser' = r.parser
           /\ source' = r.src
           /\ pulled' = Append(pulled, r.result)
    /\ rlast' = [parser |-> parser, source |-> source]
    /\ UNCHANGED <<mode, config, finished, yielded>>
    /\ UNCHANGED writerVars
    /\ UNCHANGED propVars

NextR == Pull

SpecR == InitR /\ [][NextR]_vars

----------------------------------------------------------------------------
(* The Events iterator (reader/mod.rs): EventReader::into_iter, then       *)
(* Events::next.                                                           *)

\* EventReader::new(source).into_iter().
InitI == InitReading("iterator")

\* A variant of the match of Events::next that finishes on EndFbx only.
FinishesOnEndFbx(ev) == ev = OkResult(EndFbx)

\* The match of Events::next: `Ok(FbxEvent::EndFbx) | Err(_) => self.finished = true`.
Finishes(ev) == ev.tag = "Err" \/ (ev.tag = "Ok" /\ ev.event.type = "EndFbx")

\* How many of the items are None.
NoneCount(items) == Cardinality({i \in 1..Len(items) : items[i] = NoResult})

\* Events::next when finished is set: None, and the reader is not called.
EventsNextNone ==
    /\ mode = "iterator"
    /\ finished
    /\ NoneCount(yielded) <= MaxExtraPulls
    /\ yielded' = Append(yielded, NoResult)
    /\ UNCHANGED <<mode, config, source, parser, pulled, rlast, finished>>
    /\ UNCHANGED writerVars
    /\ UNCHANGED propVars

\* Events::next when finished is not set: Some(self.reader.next()); nothing is yielded
\* when the call panics.
EventsNextSome ==
    /\ mode = "iterator"
    /\ ~finished
    /\ parser.state # "Panicked"
    /\ \E r \in {ParserNext(parser, source)} :
           /\ parser' = r.parser
           /\ source' = r.src
           /\ pulled' = Append(pulled, r.result)
           /\ finished' = Finishes(r.result)
           /\ yielded' = IF r.result.tag = "Panic" THEN yielded
                         ELSE Append(yielded, r.result)
    /\ rlast' = [parser |-> parser, source |-> source]
    /\ UNCHANGED <<mode, config>>
    /\ UNCHANGED writerVars
    /\ UNCHANGED propVars

NextI == EventsNextNone \/ EventsNextSome

SpecI == InitI /\ [][NextI]_vars

----------------------------------------------------------------------------
(* The conversions of a property (common.rs), called on an OwnedProperty   *)
(* and on the Property it is borrowed as.                                  *)

\* "AQI=", the base64 text of the bytes 1 2, and "Af8=", that of 1 255.
Base64Of12 == <<65, 81, 73, 61>>
Base64Of1FF == <<65, 102, 56, 61>>

\* The vector of the tests of common.rs.
TestVecI32 == <<1, -1, 2, -3, 5, -8, 13, -21, 34>>

\* The properties whose conversions are called: every variant, the integers with
\* values at the ends of their ranges, and strings that are and are not base64.
PropertyInputs ==
    { Prop("Bool", <<0>>), Prop("Bool", <<1>>),
      Prop("I16", <<-2>>), Prop("I16", <<32767>>), Prop("I16", <<-32768>>),
      Prop("I32", <<-7>>), Prop("I32", <<70000>>), Prop("I32", <<0 - Huge>>),
      Prop("I64", <<5>>), Prop("I64", <<Huge>>),
      Prop("F32", <<F32OneAndHalf>>), Prop("F32", <<0>>), Prop("F64", <<0>>),
      Prop("VecBool", <<1, 0>>), Prop("VecBool", <<>>),
      Prop("VecI32", TestVecI32), Prop("VecI32", <<>>), Prop("VecI32", <<0 - Huge, Huge>>),
      Prop("VecI64", <<-3>>), Prop("VecF32", <<F32OneAndHalf, 0>>), Prop("VecF64", <<0>>),
      Prop("String", <<104, 105, 0>>), Prop("String", <<>>), Prop("String", Base64Of12),
      Prop("String", Base64Of1FF), Prop("String", Base64Of12 \o Base64Of12),
      Prop("Binary", <<1, 255>>), Prop("Binary", <<>>) }

InitP ==
    /\ mode = "property"
    /\ config = DefaultConfig
    /\ sink = EmptySink(FALSE)
    /\ emitter = EmitterNew
    /\ aborted = FALSE
    /\ wresult = "None"
    /\ written = <<>>
    /\ wlast = NoWrite
    /\ opened = <<>>
    /\ source = NewSource(<<>>)
    /\ parser = ParserNew(FALSE)
    /\ pulled = <<>>
    /\ rlast = NoPull
    /\ finished = FALSE
    /\ yielded = <<>>
    /\ owned \in PropertyInputs
    /\ converted = NoCall

\* The getters that are called.
Getters ==
    {"get_bool", "get_i16", "get_i32", "get_i64", "get_f32", "get_f64", "get_vec_i32",
     "get_vec_i64", "get_binary"}

\* The choices of from_string a getter is called with.
FromStringChoices(getter) == IF getter = "get_binary" THEN BOOLEAN ELSE {FALSE}

\* A getter of OwnedProperty, by its name.
OwnedGetter(getter, p, from_string) ==
    CASE getter = "get_bool" -> OwnedProperty_get_bool(p)
      [] getter = "get_i16" -> OwnedProperty_get_i16(p)
      [] getter = "get_i32" -> OwnedProperty_get_i32(p)
      [] getter = "get_i64" -> OwnedProperty_get_i64(p)
      [] getter = "get_f32" -> OwnedProperty_get_f32(p)
      [] getter = "get_f64" -> OwnedProperty_get_f64(p)
      [] getter = "get_vec_i32" -> OwnedProperty_get_vec_i32(p)
      [] getter = "get_vec_i64" -> OwnedProperty_get_vec_i64(p)
      [] getter = "get_binary" -> OwnedProperty_get_binary(p, from_string)

\* A getter of Property, by its name.
BorrowedGetter(getter, p, from_string) ==
    CASE getter = "get_bool" -> Property_get_bool(p)
      [] getter = "get_i16" -> Property_get_i16(p)
      [] getter = "get_i32" -> Property_get_i32(p)
      [] getter = "get_i64" -> Property_get_i64(p)
      [] getter = "get_f32" -> Property_get_f32(p)
      [] getter = "get_f64" -> Property_get_f64(p)
      [] getter = "get_vec_i32" -> Property_get_vec_i32(p)
      [] getter = "get_vec_i64" -> Property_get_vec_i64(p)
      [] getter = "get_binary" -> Property_get_binary(p, from_string)

\* The property is moved out of by an into_* that returned Ok.
Moved == converted.call = "into_vec_i64" /\ converted.res.ok

\* What a conversion leaves alone.
OnlyConvertedChanges ==
    /\ UNCHANGED <<mode, config, owned>>
    /\ UNCHANGED writerVars
    /\ UNCHANGED readerVars

\* owned.get_*(..).
OwnedGet ==
    /\ mode = "property"
    /\ ~Moved
    /\ \E getter \in Getters : \E from_string \in FromStringChoices(getter) :
           converted' = [call |-> getter, shape |-> "Owned", from_string |-> from_string,
                   res |-> OwnedGetter(getter, owned, from_string)]
    /\ OnlyConvertedChanges

\* owned.borrow().get_*(..).
BorrowedGet ==
    /\ mode = "property"
    /\ ~Moved
    /\ \E getter \in Getters : \E from_string \in FromStringChoices(getter) :
           converted' = [call |-> getter, shape |-> "Borrowed", from_string |-> from_string,
                   res |-> BorrowedGetter(getter, borrow(owned), from_string)]
    /\ OnlyConvertedChanges

\* owned.into_vec_i64().
IntoVecI64 ==
    /\ mode = "property"
    /\ ~Moved
    /\ converted' = [call |-> "into_vec_i64", shape |-> "Owned", from_string |-> FALSE,
               res |-> OwnedProperty_into_vec_i64(owned)]
    /\ OnlyConvertedChanges

\* owned.borrow().
Borrow ==
    /\ mode = "property"
    /\ ~Moved
    /\ converted' = [call |-> "borrow", shape |-> "Owned", from_string |-> FALSE,
               res |-> borrow(owned)]
    /\ OnlyConvertedChanges

NextP == OwnedGet \/ BorrowedGet \/ IntoVecI64 \/ Borrow

SpecP == InitP /\ [][NextP]_vars

----------------------------------------------------------------------------
(* Properties of the reader, checked under SpecR.                          *)

\* The pulls have reached EndFbx without an error, and no pull was made after it.
ReachedEndFbx == FinalCount(pulled) = 1 /\ Accepted(pulled)

\* How many of the first i results carry an event of the type.
CountUpTo(results, i, type) ==
    Cardinality({j \in 1..i : results[j].event.type = type})

\* The results are those of a well-formed Binary stream of the version: only events,
\* one StartFbx(Binary(version)) first, one EndFbx last, no Comment, and StartNode and
\* EndNode balanced and nested.
WellFormedResults(results, version) ==
    LET n == Len(results)
    IN  /\ n >= 2
        /\ \A i \in 1..n : results[i].tag = "Ok"
        /\ results[1].event = StartFbx(Binary(version))
        /\ results[n].event = EndFbx
        /\ \A i \in 2..n : results[i].event.type # "StartFbx"
        /\ \A i \in 1..(n - 1) : results[i].event.type # "EndFbx"
        /\ \A i \in 1..n : results[i].event.type # "Comment"
        /\ \A i \in 1..n : CountUpTo(results, i, "EndNode") <= CountUpTo(results, i, "StartNode")
        /\ CountUpTo(results, n, "EndNode") = CountUpTo(results, n, "StartNode")

\* C1: for every Binary input on which the pulls reach EndFbx without an error, the
\* events are exactly one StartFbx(Binary(v)) first, v the version field of the input,
\* then StartNode and EndNode balanced and strictly nested (no prefix has more EndNode
\* than StartNode, and they are as many at EndFbx), no Comment, and exactly one
\* EndFbx, last.
C1_WellFormedEvents ==
    ReachedEndFbx => WellFormedResults(pulled, LeU32(SubSeq(source.bytes, 24, 27)))

\* C1's case: an input with a node inside a node has been pulled to EndFbx.
C1_Witness ==
    /\ ReachedEndFbx
    /\ \E i \in 1..(Len(pulled) - 1) :
           pulled[i].event.type = "StartNode" /\ pulled[i + 1].event.type = "StartNode"

\* C2: once EventReader::next has returned EndFbx or an error, every later call
\* returns that same result (the same event, or the same kind of error at the same
\* position) and reads no byte of the source.
C2_TerminalResultRepeats ==
    /\ \A i \in 1..(Len(pulled) - 1) : IsFinal(pulled[i]) => pulled[i + 1] = pulled[i]
    /\ (Len(pulled) >= 2 /\ IsFinal(pulled[Len(pulled) - 1])) => source = rlast.source

\* C2's case: a pull after EndFbx, made while bytes of the source are still unread.
C2_Witness ==
    /\ Len(pulled) >= 2
    /\ pulled[Len(pulled) - 1] = OkResult(EndFbx)
    /\ source.cur < Len(source.bytes)

\* The first export of tests/binary-export-import.rs from the results of the reader.
Exported(results) == WriteAll(OkEvents(results)).sink.bytes

\* W(R(bytes)).
Reencode(bytes) == Exported(ReadResults(bytes))

\* `assert_eq!(exported1, exported2)`.
IsFixedPoint(exported1) == Reencode(exported1) = exported1

\* C5: re-encoding is a fixed point: for every input x the reader accepts,
\* W(R(W(R(x)))) equals W(R(x)) byte for byte.
C5_ReencodeFixedPoint == ReachedEndFbx => IsFixedPoint(Exported(pulled))

\* C6: the reader reads a node record header with the field widths of the version, so
\* the pull that returns EndFbx has read one null record: 13 bytes below version 7500
\* and 25 bytes from 7500 on.
C6_NullRecordWidth ==
    (ReachedEndFbx /\ rlast.parser.final_result = NoResult) =>
        source.cur - rlast.source.cur = IF rlast.parser.version < 7500 THEN 13 ELSE 25

----------------------------------------------------------------------------
(* Properties of the writer, checked under Spec and SpecC.                 *)

\* The events have the well-formed shape: StartFbx(Binary(v)) first, EndFbx last and
\* only there, no Comment, StartNode and EndNode balanced and nested.
WellFormedStream(events) ==
    LET n == Len(events)
    IN  /\ n >= 2
        /\ events[1].type = "StartFbx" /\ events[1].format.kind = "Binary"
        /\ events[n].type = "EndFbx"
        /\ \A i \in 2..n : events[i].type # "StartFbx"
        /\ \A i \in 1..(n - 1) : events[i].type # "EndFbx"
        /\ \A i \in 1..n : events[i].type # "Comment"
        /\ \A i \in 1..n : Count(SubSeq(events, 1, i), "EndNode")
                           <= Count(SubSeq(events, 1, i), "StartNode")
        /\ Count(events, "EndNode") = Count(events, "StartNode")

\* The writer has accepted a whole stream of the well-formed shape.
StreamWritten ==
    /\ wlast.event.type = "EndFbx"
    /\ wresult = "Ok"
    /\ WellFormedStream(written)

\* The reader's results are the events, one by one, and no error.
ReadsAs(results, events) ==
    /\ results = [i \in 1..Len(events) |-> OkResult(events[i])]
    /\ \A i \in 1..Len(results) : results[i].kind # "DataError"

\* C3: for every event stream of the well-formed shape that the Binary writer accepts,
\* with any of the 13 property variants, the Binary reader reads the writer's output
\* as the same event stream: names, property variants and property contents, in order.
C3_RoundTrip == StreamWritten => ReadsAs(ReadResults(Drop(sink.bytes, sink.start)), written)

\* The properties are scalars, strings, binaries or i32/i64/f32/f64 arrays.
NoVecBool(events) ==
    \A i \in 1..Len(events) :
        \A j \in 1..Len(events[i].properties) : events[i].properties[j].tag # "VecBool"

\* C4: for the versions 7000..7499 and streams whose properties are scalars, strings,
\* binaries or i32/i64/f32/f64 arrays, the reader applied to the writer's output
\* returns the identical event sequence and never reports "Node does not end at
\* expected position".
C4_RoundTripBelow7500 ==
    (/\ StreamWritten
     /\ written[1].format.version \in 7000..7499
     /\ NoVecBool(written)) => ReadsAs(ReadResults(Drop(sink.bytes, sink.start)), written)

\* C7: once Emitter::write has returned an error of any kind, every later write
\* returns that same error and writes nothing.
C7_ErrorRepeats ==
    [][(wresult \notin {"None", "Ok", "NoReturn"}) =>
           (wresult' = wresult /\ sink' = sink)]_vars

\* The write before this state was dispatched on the state and the event.
Dispatched(states, types) ==
    /\ wlast.emitter.final_result = "None"
    /\ wlast.emitter.state \in states
    /\ wlast.event.type \in types

\* C8: in the Initial state any event other than StartFbx is rejected with
\* FbxNotStarted, in the Binary and the Ascii state StartFbx is rejected with
\* FbxAlreadyStarted, and in both cases the sink is unchanged.
C8_RejectedOutOfOrder ==
    /\ Dispatched({"Initial"}, {"EndFbx", "StartNode", "EndNode", "Comment"}) =>
           (wresult = "FbxNotStarted" /\ sink = wlast.sink)
    /\ Dispatched({"Binary", "Ascii"}, {"StartFbx"}) =>
           (wresult = "FbxAlreadyStarted" /\ sink = wlast.sink)

\* The write before this state was an EndNode the Binary emitter accepted.
NodeEnded ==
    /\ wlast.event.type = "EndNode"
    /\ wlast.emitter.state = "Binary"
    /\ wresult = "Ok"

\* The node the last EndNode ended.
EndedNode == wlast.opened[Len(wlast.opened)]

\* C9: on EndNode the Binary emitter writes a null record, 13 zero bytes below version
\* 7500 and 25 from 7500 on, if and only if the node that is ended had no properties
\* or had at least one child; otherwise it writes nothing at the end of the sink.
C9_NullRecordIff ==
    NodeEnded =>
        Drop(sink.bytes, Len(wlast.sink.bytes))
            = IF EndedNode.properties = <<>> \/ EndedNode.children > 0
              THEN Zeros(IF wlast.emitter.version < 7500 THEN 13 ELSE 25)
              ELSE <<>>

\* C9's case: a node with a property and a child has been ended.
C9_Witness ==
    NodeEnded /\ EndedNode.properties # <<>> /\ EndedNode.children > 0

\* The bytes of the sink at the offsets from + 1 .. from + width.
Field(from, width) == SubSeq(sink.bytes, from + 1, from + width)

\* C10: after an accepted EndNode the end_offset field of the node that is ended holds
\* the absolute offset just past the node's last byte, its null record included, and
\* no other byte written before the EndNode is changed: no other field of the header
\* and no header of another node.
C10_EndOffsetPatched ==
    NodeEnded =>
        /\ Field(EndedNode.offset, IF wlast.emitter.version < 7500 THEN 4 ELSE 8)
               = LeBytes(Len(sink.bytes), 4)
                 \o (IF wlast.emitter.version < 7500 THEN <<>> ELSE LeBytes(sink.base, 4))
        /\ \A i \in 1..Len(wlast.sink.bytes) :
               (i <= EndedNode.offset
                \/ i > EndedNode.offset + (IF wlast.emitter.version < 7500 THEN 4 ELSE 8))
                   => sink.bytes[i] = wlast.sink.bytes[i]

\* C10's case: a node of a version 7500 file is ended inside a node that is still
\* open, and a null record is written for it.
C10_Witness ==
    /\ NodeEnded
    /\ Len(wlast.opened) = 2
    /\ wlast.emitter.version >= 7500
    /\ Len(sink.bytes) > Len(wlast.sink.bytes)

----------------------------------------------------------------------------
(* Properties of the reader's steps, checked under SpecR.                  *)

\* The last pull was made by the sub parser of the state (nothing was latched before
\* it).
PulledIn(state) ==
    /\ pulled # <<>>
    /\ rlast.parser.state = state
    /\ rlast.parser.final_result = NoResult

\* The last result.
LastResult == pulled[Len(pulled)]

\* The end-offset stack before the last pull, and its top.
StackBefore == rlast.parser.end_offset_stack
TopBefore == StackBefore[Len(StackBefore)]

\* The last pull read a node record header, and it was a null record: the previous
\* node did not end at pos, and the next 13 bytes of the source were zero.
ReadNullRecord ==
    /\ PulledIn("Binary")
    /\ (StackBefore = <<>> \/ TopBefore # rlast.parser.pos)
    /\ Len(rlast.source.bytes) >= rlast.source.cur + 13
    /\ \A i \in 1..13 : rlast.source.bytes[rlast.source.cur + i] = 0

\* C11: when the Binary reader reads a null record, with a non-empty end-offset stack
\* it pops the top and returns EndNode if the popped offset equals pos after the null
\* record and a DataError otherwise; with an empty stack it returns EndFbx and reads
\* nothing of the footer.  In particular magic, version and one null record are read
\* as exactly StartFbx(Binary(v)), EndFbx.
C11_NullRecord ==
    /\ (ReadNullRecord /\ StackBefore # <<>>) =>
           /\ parser.end_offset_stack = SubSeq(StackBefore, 1, Len(StackBefore) - 1)
           /\ LastResult = IF TopBefore = rlast.parser.pos + 13 THEN OkResult(EndNode)
                           ELSE ErrResult(rlast.parser.pos + 13, "DataError")
    /\ (ReadNullRecord /\ StackBefore = <<>>) =>
           /\ LastResult = OkResult(EndFbx)
           /\ source.cur = rlast.source.cur + 13
    /\ (/\ Len(pulled) >= 2
        /\ Len(source.bytes) >= 40
        /\ SubSeq(source.bytes, 1, 21) = BinaryMagic \o <<0>>
        /\ SubSeq(source.bytes, 28, 40) = Zeros(13)) =>
           /\ pulled[1] = OkResult(StartFbx(Binary(LeU32(SubSeq(source.bytes, 24, 27)))))
           /\ pulled[2] = OkResult(EndFbx)

\* C11's case: a null record has been read while a node was open, and it ended the
\* node.
C11_Witness ==
    ReadNullRecord /\ StackBefore # <<>> /\ LastResult = OkResult(EndNode)

\* The last pull read from the source and returned an error.
PulledError ==
    /\ pulled # <<>>
    /\ rlast.parser.final_result = NoResult
    /\ LastResult.tag = "Err"

\* C13: the pos of every error the reader returns is the number of bytes consumed
\* from the input before the failing read, the bytes of the failing read not counted:
\* no less than the bytes consumed before the pull that failed, and no more than the
\* bytes consumed when it returns.
C13_ErrorPosition ==
    PulledError =>
        /\ rlast.source.cur <= LastResult.pos
        /\ LastResult.pos <= source.cur

\* The first line of the input ends at offset i with the byte `end`: no byte before it
\* is a NUL or a line feed.
FirstLineEnds(i, end) ==
    /\ i <= Len(source.bytes)
    /\ source.bytes[i] = end
    /\ \A j \in 1..(i - 1) : source.bytes[j] \notin {0, 10}

\* C14: when the first bytes of the input, up to the first NUL, are not the 20-byte
\* Binary magic, the first pull returns an InvalidMagic error whose position is 0.
C14_InvalidMagicAtZero ==
    \A i \in 1..Len(source.bytes) :
        (/\ pulled # <<>>
         /\ FirstLineEnds(i, 0)
         /\ SubSeq(source.bytes, 1, i - 1) # BinaryMagic) =>
            pulled[1] = ErrResult(0, "InvalidMagic")

\* The buffer the ASCII parser starts with: nothing of a first line that starts with
\* ';', any other first line followed by a line feed.
BufferOf(line) == IF line # <<>> /\ line[1] = 59 THEN <<>> ELSE line \o <<10>>

\* C15: when the first terminator byte of the input is a line feed, the first pull
\* returns StartFbx(Ascii) for every sequence of valid UTF-8 bytes before that line
\* feed, of any length, zero included: a first line that starts with ';' is discarded,
\* any other first line is kept, followed by a line feed, in the ASCII parser's buffer.
C15_AsciiStarted ==
    \A i \in 1..Len(source.bytes) :
        (/\ Len(pulled) = 1
         /\ FirstLineEnds(i, 10)
         /\ IsUtf8(SubSeq(source.bytes, 1, i - 1))) =>
            /\ pulled[1] = OkResult(StartFbx(Ascii))
            /\ parser.state = "Ascii"
            /\ parser.buffer = BufferOf(SubSeq(source.bytes, 1, i - 1))

\* C16: after the reader has returned StartFbx(Ascii) the next pull returns an
\* Unimplemented error that carries the current pos, the offset just after the first
\* line feed, and every later pull returns that error again; no StartNode, EndNode,
\* Comment or EndFbx is ever returned for ASCII input.
C16_AsciiUnimplemented ==
    \A i \in 1..Len(source.bytes) :
        (pulled # <<>> /\ pulled[1] = OkResult(StartFbx(Ascii)) /\ FirstLineEnds(i, 10)) =>
            \A k \in 2..Len(pulled) : pulled[k] = ErrResult(i, "Unimplemented")

\* C16's case: an ASCII input with a first line has been pulled twice after its
\* StartFbx.
C16_Witness ==
    /\ Len(pulled) >= 3
    /\ pulled[1] = OkResult(StartFbx(Ascii))
    /\ source.bytes[1] # 10

\* The byte of the source at the offset i from where the last pull started to read.
ByteBefore(i) == rlast.source.bytes[rlast.source.cur + i]

\* The last pull read a node record header that is no null record, the node's name and
\* the type code of its first property: the previous node did not end at pos, the
\* header's num_properties is not 0 and the name is valid UTF-8.
ReadFirstTypeCode ==
    /\ PulledIn("Binary")
    /\ (StackBefore = <<>> \/ TopBefore # rlast.parser.pos)
    /\ Len(rlast.source.bytes) >= rlast.source.cur + 13
    /\ Len(rlast.source.bytes) >= rlast.source.cur + 13 + ByteBefore(13) + 1
    /\ \E i \in 5..8 : ByteBefore(i) # 0
    /\ IsUtf8(SubSeq(rlast.source.bytes, rlast.source.cur + 14,
                     rlast.source.cur + 13 + ByteBefore(13)))

\* The type code of the first property of the node record the last pull read.
FirstTypeCode == ByteBefore(13 + ByteBefore(13) + 1)

\* C17: when a property is decoded, every type-code byte greater than 0x7F (0x80
\* through 0xFF) yields a DataError.
C17_NonAsciiTypeCode ==
    (ReadFirstTypeCode /\ FirstTypeCode >= 128) =>
        (LastResult.tag = "Err" /\ LastResult.kind = "DataError")

\* The type codes of the 13 property variants: C Y I L F D S R f d l i b.
KnownTypeCodes == {67, 89, 73, 76, 70, 68, 83, 82, 102, 100, 108, 105, 98}

\* The last pull read the array header of the first property of a node record, and
\* its encoding is neither 0 nor 1.
ReadUnknownEncoding ==
    /\ ReadFirstTypeCode
    /\ FirstTypeCode \in {102, 100, 108, 105, 98}
    /\ Len(rlast.source.bytes) >= rlast.source.cur + 13 + ByteBefore(13) + 13
    /\ \/ ByteBefore(13 + ByteBefore(13) + 6) > 1
       \/ \E i \in 7..9 : ByteBefore(13 + ByteBefore(13) + i) # 0

\* C18: when a property is decoded, an ASCII type-code byte that is none of C, Y, I,
\* L, F, D, S, R, f, d, l, i, b yields UnexpectedValue, and an array header whose
\* encoding is neither 0 nor 1 yields UnexpectedValue; in both cases no StartNode is
\* returned for the node.
C18_UnexpectedValue ==
    /\ (ReadFirstTypeCode /\ FirstTypeCode < 128 /\ FirstTypeCode \notin KnownTypeCodes) =>
           (LastResult.tag = "Err" /\ LastResult.kind = "UnexpectedValue")
    /\ ReadUnknownEncoding =>
           (LastResult.tag = "Err" /\ LastResult.kind = "UnexpectedValue")

\* C18's case: an array header with an encoding of 2 or more has been read.
C18_Witness == ReadUnknownEncoding /\ LastResult.tag = "Err"

----------------------------------------------------------------------------
(* Properties of the Events iterator, checked under SpecI.                 *)

\* The items are the results one by one, and None from there on.
YieldsOf(items, results) ==
    \A i \in 1..Len(items) :
        items[i] = IF i <= Len(results) THEN results[i] ELSE NoResult

\* C12: the Events iterator yields exactly the results EventReader::next would
\* return, up to and including the first EndFbx or error, yields that terminal item
\* once, and returns None on every call after it.
C12_IteratorStops ==
    mode = "iterator" =>
        /\ YieldsOf(yielded, PullAll(ParserNew(parser.ignore_comments),
                                     NewSource(source.bytes), <<>>))
        /\ \A i \in 1..Len(yielded) : yielded[i].tag # "Panic"

\* C12's case: the iterator was called twice after it had yielded an error.
C12_Witness ==
    /\ mode = "iterator"
    /\ Len(yielded) >= 3
    /\ yielded[Len(yielded) - 2].tag = "Err"
    /\ yielded[Len(yielded) - 1] = NoResult
    /\ yielded[Len(yielded)] = NoResult

----------------------------------------------------------------------------
(* Properties of StartFbx in the writer, checked under Spec and SpecC.     *)

\* The write before this state was a StartFbx(Binary(v)) dispatched in the Initial
\* state, on a sink that works.
BinaryStartWritten ==
    /\ Dispatched({"Initial"}, {"StartFbx"})
    /\ wlast.event.format.kind = "Binary"
    /\ ~wlast.sink.broken

\* C19: writing StartFbx(Binary(v)) with v < 7000 or v >= 8000 returns
\* UnsupportedFbxVersion and writes no byte to the sink; for 7000 <= v < 8000 it writes
\* exactly the 20-byte magic, a NUL, the bytes 0x1A 0x00 and v as a little-endian u32,
\* 27 bytes.
C19_StartFbxBinary ==
    (BinaryStartWritten /\ config.fbx_version = <<>>) =>
        IF wlast.event.format.version < 7000 \/ wlast.event.format.version >= 8000
        THEN wresult = "UnsupportedFbxVersion" /\ sink = wlast.sink
        ELSE /\ wresult = "Ok"
             /\ Drop(sink.bytes, wlast.sink.pos)
                    = BinaryMagic \o <<0, 26, 0>> \o LeBytes(wlast.event.format.version, 4)
             /\ Len(sink.bytes) = wlast.sink.pos + 27

\* C20: with fbx_version = Some(c) in the config, StartFbx(Binary(v)) with v # c
\* returns InvalidOption and writes nothing; with fbx_version = None, StartFbx(Ascii)
\* returns InvalidOption and writes nothing; with fbx_version = None,
\* StartFbx(Binary(v)) is accepted for every supported v.
C20_VersionOption ==
    /\ (/\ BinaryStartWritten
        /\ config.fbx_version # <<>>
        /\ wlast.event.format.version # config.fbx_version[1]) =>
           (wresult = "InvalidOption" /\ sink = wlast.sink)
    /\ (/\ Dispatched({"Initial"}, {"StartFbx"})
        /\ wlast.event.format.kind = "Ascii"
        /\ config.fbx_version = <<>>) =>
           (wresult = "InvalidOption" /\ sink = wlast.sink)
    /\ (/\ BinaryStartWritten
        /\ config.fbx_version = <<>>
        /\ wlast.event.format.version \in 7000..7999) =>
           wresult = "Ok"

----------------------------------------------------------------------------
(* Properties of the Binary emitter's records, checked under Spec and      *)
(* SpecC.                                                                  *)

\* C21: a Comment written while the emitter is in the Binary state: with
\* ignore_minor_errors = true it returns success, writes nothing, changes no emitter
\* state and does not latch, so that later events are processed normally; with
\* ignore_minor_errors = false it returns UnwritableEvent.
C21_BinaryComment ==
    Dispatched({"Binary"}, {"Comment"}) =>
        IF config.ignore_minor_errors
        THEN wresult = "Ok" /\ sink = wlast.sink /\ emitter = wlast.emitter
        ELSE wresult = "UnwritableEvent"

\* The write before this state was a StartNode the Binary emitter accepted.
NodeStarted ==
    /\ wlast.event.type = "StartNode"
    /\ wlast.emitter.state = "Binary"
    /\ wresult = "Ok"

\* The width of the three header fields before name_len, by the version.
HeaderFieldWidth == IF wlast.emitter.version < 7500 THEN 4 ELSE 8

\* The offset of the name_len field of the node the last StartNode started.
NameLenOffset == wlast.sink.pos + 3 * HeaderFieldWidth

\* C22: for every StartNode the Binary writer accepts, the one-byte name-length field of
\* the header equals the number of name bytes written after it; a node name longer
\* than 255 bytes is not accepted.
C22_NameLength ==
    /\ NodeStarted =>
           /\ Field(NameLenOffset, 1) = <<Len(wlast.event.name)>>
           /\ Field(NameLenOffset + 1, Len(wlast.event.name)) = wlast.event.name
    /\ (/\ Dispatched({"Binary"}, {"StartNode"})
        /\ Len(wlast.event.name) > 255
        /\ ~wlast.sink.broken) => wresult \notin {"Ok", "None"}

\* The write before this state was an EndNode dispatched to the Binary emitter while a
\* node was open, on a sink that works.
EndNodeDispatched ==
    /\ Dispatched({"Binary"}, {"EndNode"})
    /\ wlast.opened # <<>>
    /\ ~wlast.sink.broken

\* The bytes written for the properties of the node the last StartNode started: the
\* sink from the end of the name on.
PropertyBytes == Drop(sink.bytes, NameLenOffset + 1 + Len(wlast.event.name))

\* C23: with a version below 7500 the Binary writer never writes a wrapped 32-bit value
\* into a header: EndNode returns DataTooLarge when the node's end offset exceeds
\* 2^32 - 1 and StartNode returns DataTooLarge when the tally of the property bytes
\* exceeds 2^32 - 1; with a version from 7500 on the same values are written as 64-bit
\* fields without error.
C23_DataTooLarge ==
    /\ (EndNodeDispatched /\ wlast.emitter.version < 7500 /\ wlast.sink.base > 0) =>
           wresult = "DataTooLarge"
    /\ (NodeEnded /\ wlast.emitter.version < 7500) => sink.base = 0
    /\ (/\ Dispatched({"Binary"}, {"StartNode"})
        /\ wlast.emitter.version < 7500
        /\ ExceedsU32(Len(PropertyBytes))) => wresult = "DataTooLarge"
    /\ (EndNodeDispatched /\ wlast.emitter.version >= 7500) =>
           /\ wresult = "Ok"
           /\ Field(EndedNode.offset, 8) = LeBytes(Len(sink.bytes), 4) \o LeBytes(sink.base, 4)

\* The write before this state was an EndFbx dispatched to the Binary emitter on a sink
\* that works.
EndFbxDispatched ==
    /\ Dispatched({"Binary"}, {"EndFbx"})
    /\ ~wlast.sink.broken

\* The bytes the last write added to the sink.
Added == Drop(sink.bytes, wlast.sink.pos)

\* The length of a null record of the version.
NullRecordLen == IF wlast.emitter.version < 7500 THEN 13 ELSE 25

\* C24: on EndFbx the Binary writer writes one null record, the 16-byte footer magic,
\* then between 0 and 15 zero bytes so that the sink offset becomes a multiple of 16,
\* then 4 zero bytes, the version as a little-endian u32, 120 zero bytes and the 16-byte
\* trailing magic; for a sink that started at offset 0 the length of the final output is
\* a multiple of 16.
C24_Footer ==
    EndFbxDispatched =>
        /\ wresult = "Ok"
        /\ \E pad \in 0..15 :
               /\ (wlast.sink.pos + NullRecordLen + 16 + pad) % 16 = 0
               /\ Added = Zeros(NullRecordLen) \o FooterMagic \o Zeros(pad) \o Zeros(4)
                          \o LeBytes(wlast.emitter.version, 4) \o Zeros(120) \o TrailerMagic
        /\ sink.start = 0 => Len(sink.bytes) % 16 = 0

\* C24's case: the footer of a version 7500 file, with padding, is written to a sink
\* that did not start at offset 0.
C24_Witness ==
    /\ EndFbxDispatched
    /\ wlast.emitter.version >= 7500
    /\ sink.start # 0
    /\ Len(Added) > 25 + 16 + 4 + 4 + 120 + 16

\* C25: in the Binary state and in the Ascii state alike, writing EndNode when no node
\* is open (after no StartNode, or after as many EndNode as StartNode) returns the
\* ExtraEndNode error, writes nothing to the sink and does not abort the program.
C25_ExtraEndNode ==
    (Dispatched({"Binary", "Ascii"}, {"EndNode"}) /\ wlast.opened = <<>>) =>
        /\ wresult = "ExtraEndNode"
        /\ sink = wlast.sink
        /\ ~aborted

----------------------------------------------------------------------------
(* Properties of the conversions of a property, checked under SpecP.       *)

\* The source variants of the conversion table for a getter.
Sources(getter, from_string) ==
    CASE getter = "get_bool" -> {"Bool"}
      [] getter = "get_i16" -> {"Bool", "I16"}
      [] getter = "get_i32" -> {"Bool", "I16", "I32"}
      [] getter = "get_i64" -> {"Bool", "I16", "I32", "I64"}
      [] getter \in {"get_f32", "get_f64"} -> {"F32", "F64"}
      [] getter = "get_vec_i32" -> {"VecBool", "VecI32"}
      [] getter = "get_vec_i64" -> {"VecBool", "VecI32", "VecI64"}
      [] getter = "get_binary" -> IF from_string THEN {"Binary", "String"} ELSE {"Binary"}

\* The last call was a getter, on the owned property or on its borrow.
GetterCalled == converted.call \in Getters

\* The last call was get_binary(true) on a String.
BinaryFromString ==
    /\ converted.call = "get_binary"
    /\ converted.from_string
    /\ owned.tag = "String"

\* The getters of the integers and of the integer arrays.
IntegerGetters == {"get_i16", "get_i32", "get_i64", "get_vec_i32", "get_vec_i64"}

\* A boolean is converted to 0 or 1, and the widening of an integer preserves its
\* value.
ValuePreserved ==
    (GetterCalled /\ converted.call \in IntegerGetters /\ converted.res.some) =>
        /\ converted.res.val = owned.val
        /\ owned.tag \in {"Bool", "VecBool"} =>
               \A i \in 1..Len(converted.res.val) : converted.res.val[i] \in {0, 1}

\* The text is base64 of the standard alphabet with padding: groups of four characters
\* of the alphabet, the last group ending with no, one or two '=' after characters whose
\* unused bits are zero.
WellFormedBase64(v) ==
    LET n == Len(v)
        pad == IF n >= 1 /\ v[n] = 61 THEN (IF n >= 2 /\ v[n - 1] = 61 THEN 2 ELSE 1) ELSE 0
    IN  /\ n % 4 = 0
        /\ \A i \in 1..(n - pad) : Base64Value(v[i]) >= 0
        /\ pad = 1 => Base64Value(v[n - 1]) % 4 = 0
        /\ pad = 2 => Base64Value(v[n - 2]) % 16 = 0

\* C26, as stated: each Property / OwnedProperty getter returns a present value
\* exactly for the source variants of the conversion table and absent for every other
\* variant, without panicking: get_bool from Bool; get_i16 from Bool, I16; get_i32
\* from Bool, I16, I32; get_i64 from Bool, I16, I32, I64; get_f32 and get_f64 from F32,
\* F64; get_vec_i32 from VecBool, VecI32; get_vec_i64 from VecBool, VecI32, VecI64;
\* get_binary(false) from Binary only, and get_binary(true) additionally from String.
\* Bool converts to 0 or 1 and integer widening preserves the value.
C26_ConversionTable ==
    /\ GetterCalled =>
           (converted.res.some <=> owned.tag \in Sources(converted.call, converted.from_string))
    /\ ValuePreserved

\* C26, amended: as stated for every getter and variant but get_binary(true) on a
\* String, which returns a present value exactly when the string is well-formed base64
\* (standard alphabet, padded), the bytes that encode to the string, and is absent for
\* any other string.
C26_ConversionTableDecoded ==
    /\ (GetterCalled /\ ~BinaryFromString) =>
           (converted.res.some <=> owned.tag \in Sources(converted.call, converted.from_string))
    /\ BinaryFromString =>
           /\ converted.res.some <=> WellFormedBase64(owned.val)
           /\ converted.res.some => ToBase64(converted.res.val) = owned.val
    /\ ValuePreserved

\* C26's case: get_binary(true) has decoded a String on the borrowed property.
C26_Witness ==
    /\ BinaryFromString
    /\ converted.shape = "Borrowed"
    /\ converted.res = Some(<<1, 255>>)

\* C27: for every VecI32 property, get_vec_i64 and into_vec_i64 on the owned value and
\* get_vec_i64 on its borrow() all return the same vector: the same length, the same
\* order, each element the sign-preserving widening of the corresponding i32; borrow()
\* keeps the variant and the contents of the owned property.
C27_VecI32Widened ==
    /\ (owned.tag = "VecI32" /\ converted.call = "get_vec_i64") =>
           converted.res = Some(owned.val)
    /\ (owned.tag = "VecI32" /\ converted.call = "into_vec_i64") =>
           (converted.res.ok /\ converted.res.val = owned.val)
    /\ converted.call = "borrow" =>
           (converted.res.tag = owned.tag /\ converted.res.val = owned.val)

\* C27's case: into_vec_i64 has been called on a VecI32 that holds the least and the
\* greatest i32 of the model.
C27_Witness ==
    /\ owned.tag = "VecI32"
    /\ converted.call = "into_vec_i64"
    /\ \E i \in 1..Len(owned.val) : owned.val[i] < -32768

----------------------------------------------------------------------------
(* The end of a node that is found by its end offset.                      *)

\* The pull was made with end_offset_stack not empty and its top equal to pos.
NodeEndsHere == PulledIn("Binary") /\ StackBefore # <<>> /\ TopBefore = rlast.parser.pos

\* C28: a pull of the binary reader made while the top of end_offset_stack equals pos
\* returns EndNode, removes that one entry and leaves the rest of the stack, pos and the
\* source as they were.
C28_EndNodeWithoutRead ==
    NodeEndsHere =>
        /\ LastResult = OkResult(EndNode)
        /\ parser.end_offset_stack = SubSeq(StackBefore, 1, Len(StackBefore) - 1)
        /\ parser.pos = rlast.parser.pos
        /\ source = rlast.source

\* An inner node that ends at its end offset while its parent is still open.
C28_Witness ==
    /\ NodeEndsHere
    /\ Len(StackBefore) = 2
    /\ LastResult = OkResult(EndNode)
    /\ parser.end_offset_stack = <<StackBefore[1]>>

----------------------------------------------------------------------------
(* pos and the bytes taken from the source.                                *)

\* C29: after every successful pull of the binary reader, pos is the number of bytes
\* taken from the source (an array of encoding 0 advancing both by its element bytes, an
\* array of encoding 1 advancing both by compressed_length).
C29_PosIsConsumed ==
    (PulledIn("Binary") /\ LastResult.tag = "Ok") => parser.pos = source.cur

----------------------------------------------------------------------------
(* The property_list_len field of a node record header.                    *)

\* The property_list_len field of the node the last StartNode started.
PropertyListLenField == Field(wlast.sink.pos + 2 * HeaderFieldWidth, HeaderFieldWidth)

\* C30: after a StartNode the Binary writer accepts, the property_list_len field of the
\* node's header holds the number of bytes written for the properties (the sink from
\* the end of the node name to its end), whatever the variants of the properties; for a
\* node without properties it holds 0.
C30_PropertyListLen ==
    NodeStarted =>
        /\ PropertyListLenField = LeBytes(Len(PropertyBytes), HeaderFieldWidth)
        /\ wlast.event.properties = <<>> => PropertyListLenField = Zeros(HeaderFieldWidth)

\* A node of scalars, a string and compressed arrays whose field is not 0.
C30_Witness ==
    /\ NodeStarted
    /\ \E i \in 1..Len(wlast.event.properties) : wlast.event.properties[i].tag = "I16"
    /\ \E i \in 1..Len(wlast.event.properties) : wlast.event.properties[i].tag = "VecI64"
    /\ \E i \in 1..Len(wlast.event.properties) : wlast.event.properties[i].tag = "String"
    /\ PropertyListLenField = LeBytes(Len(PropertyBytes), HeaderFieldWidth)
    /\ Len(PropertyBytes) > 0

----------------------------------------------------------------------------
(* The array properties the Binary writer writes.                          *)

\* The tags of the arrays written through read_array_value!, their type codes and the
\* widths of their elements.
CompressedArrayTags == {"VecI32", "VecI64", "VecF32", "VecF64"}
ArrayTypeCode(tag) ==
    CASE tag = "VecI32" -> 105 [] tag = "VecI64" -> 108
      [] tag = "VecF32" -> 102 [] tag = "VecF64" -> 100
ArrayElementWidth(tag) == IF tag \in {"VecI32", "VecF32"} THEN 4 ELSE 8

\* The bytes a property other than a compressed array takes in the sink, its type code
\* included.
PlainPropertyLen(prop) ==
    CASE prop.tag \in {"Bool"} -> 2
      [] prop.tag = "I16" -> 3
      [] prop.tag \in {"I32", "F32"} -> 5
      [] prop.tag \in {"I64", "F64"} -> 9
      [] prop.tag \in {"String", "Binary"} -> 5 + Len(prop.val)
      [] prop.tag = "VecBool" -> 1 + Len(prop.val)

\* Whether `bytes` are the properties one after the other, each compressed array as its
\* type code, array_length = the number of elements, encoding = 1, compressed_length =
\* the length of the compressed data, and that data up to the next property.
RECURSIVE ArraysLaidOut(_, _)
\* A compressed array at the head of the bytes, then the rest.
ArrayLaidOut(bytes, prop, rest, compressed_length) ==
    /\ Len(bytes) >= 13 + compressed_length
    /\ bytes[1] = ArrayTypeCode(prop.tag)
    /\ SubSeq(bytes, 2, 5) = LeBytes(Len(prop.val), 4)
    /\ SubSeq(bytes, 6, 9) = LeBytes(1, 4)
    /\ SubSeq(bytes, 14, 13 + compressed_length)
           = ZlibEncode(ElementBytes(prop.val, ArrayElementWidth(prop.tag)))
    /\ ArraysLaidOut(Drop(bytes, 13 + compressed_length), rest)

ArraysLaidOut(bytes, properties) ==
    IF properties = <<>> THEN bytes = <<>>
    ELSE IF Head(properties).tag \in CompressedArrayTags
    THEN /\ Len(bytes) >= 13
         /\ ArrayLaidOut(bytes, Head(properties), Tail(properties),
                         LeU32(SubSeq(bytes, 10, 13)))
    ELSE /\ Len(bytes) >= PlainPropertyLen(Head(properties))
         /\ ArraysLaidOut(Drop(bytes, PlainPropertyLen(Head(properties))), Tail(properties))

\* C31: for every i32/i64/f32/f64 array of a node the Binary writer accepts, array_length
\* is the number of elements, encoding is 1 and compressed_length is the number of bytes
\* of the compressed data that lie between the array header and the next property; the
\* fixup of compressed_length leaves every byte written before the node as it was.
C31_ArrayHeader ==
    NodeStarted =>
        /\ ArraysLaidOut(PropertyBytes, wlast.event.properties)
        /\ Take(sink.bytes, Len(wlast.sink.bytes)) = wlast.sink.bytes

\* A node of four compressed arrays, one after the other, was written.
C31_Witness ==
    /\ NodeStarted
    /\ Cardinality({i \in 1..Len(wlast.event.properties) :
                       wlast.event.properties[i].tag \in CompressedArrayTags}) = 4
    /\ ArraysLaidOut(PropertyBytes, wlast.event.properties)

----------------------------------------------------------------------------
(* A boolean array, written and read.                                      *)

\* The last StartNode the Binary writer accepted had a boolean array as its only
\* property.
VecBoolWritten ==
    /\ NodeStarted
    /\ Len(wlast.event.properties) = 1
    /\ wlast.event.properties[1].tag = "VecBool"

\* C32: the bytes the Binary writer writes for a VecBool property are read by
\* read_property of the Binary reader as a VecBool of the same elements, all of the
\* bytes being consumed.
C32_VecBoolReadBack ==
    VecBoolWritten =>
        \E r \in {read_property(NewSource(PropertyBytes), 0)} :
            /\ r.ok
            /\ r.v = wlast.event.properties[1]
            /\ r.src.cur = Len(PropertyBytes)

----------------------------------------------------------------------------
(* The lines and braces of the nodes the Ascii writer writes.              *)

\* The write before this state was a StartNode / an EndNode of an open node that the
\* Ascii emitter accepted.
AsciiNodeStarted ==
    /\ wlast.event.type = "StartNode"
    /\ wlast.emitter.state = "Ascii"
    /\ wresult = "Ok"

AsciiNodeEnded ==
    /\ wlast.event.type = "EndNode"
    /\ wlast.emitter.state = "Ascii"
    /\ wlast.opened # <<>>
    /\ wresult = "Ok"

\* The nodes open before the last write, and the innermost of them.
DepthBefore == Len(wlast.opened)
InnermostBefore == wlast.opened[DepthBefore]

\* " {" and the line feed after it; "}" and the line feed after it.
OpeningBrace == <<32, 123, 10>>
ClosingBrace == <<125, 10>>

\* The last StartNode started the first child of its parent.
FirstChild == DepthBefore > 0 /\ InnermostBefore.children = 0

\* The name and the properties of the node the last StartNode started, as they stand
\* on its line.
NodeLine ==
    wlast.event.name \o <<58, 32>> \o PropertiesText(wlast.event.properties, DepthBefore + 1)

\* The braces and the indentation of the nodes: a StartNode writes the opening brace of
\* its parent if it is the parent's first child, then one tab per open node and the
\* node's name and properties; an EndNode writes a line feed for a node with properties
\* and no child, and for every other node one tab per node open around it and the
\* closing brace, after the opening brace if the node had neither property nor child.
NodeBraces ==
    /\ AsciiNodeStarted =>
           Added = (IF FirstChild THEN OpeningBrace ELSE <<>>)
                   \o Indent(DepthBefore) \o NodeLine
    /\ (/\ AsciiNodeEnded
        /\ InnermostBefore.properties # <<>>
        /\ InnermostBefore.children = 0) => Added = <<10>>
    /\ (/\ AsciiNodeEnded
        /\ (InnermostBefore.properties = <<>> \/ InnermostBefore.children > 0)) =>
           Added = (IF InnermostBefore.children = 0 THEN OpeningBrace ELSE <<>>)
                   \o Indent(DepthBefore - 1) \o ClosingBrace

----------------------------------------------------------------------------
(* The end of the pulls.                                                   *)

\* The reader has returned a terminal result: EndFbx or an error.
TerminalReturned == parser.final_result # NoResult

\* The last pull returned an event that is not terminal.
PulledOn ==
    /\ pulled # <<>>
    /\ rlast.parser.final_result = NoResult
    /\ LastResult.tag = "Ok"
    /\ LastResult.event.type # "EndFbx"

\* What is left to do for a reader: the bytes not yet taken from the source, counted
\* twice, and the open nodes.
LeftToDo(p, src) == 2 * Remaining(src) + Len(p.end_offset_stack)

\* Every pull that is not terminal takes at least one byte of the source or removes
\* one entry of end_offset_stack, and leaves less to do than there was.
PullProgresses ==
    PulledOn =>
        /\ \/ source.cur > rlast.source.cur
           \/ Len(parser.end_offset_stack) < Len(StackBefore)
        /\ LeftToDo(parser, source) < LeftToDo(rlast.parser, rlast.source)

\* C34: for every finite input the pulls of the reader reach a terminal result, EndFbx
\* or an error, after finitely many pulls: every pull that is not terminal takes at
\* least one byte of the input or removes one entry of end_offset_stack, and as long as
\* no terminal result is returned the reader can be pulled again.
C34_PullsEnd ==
    /\ PullProgresses
    /\ pulled # <<>> => (TerminalReturned \/ CanPull)

----------------------------------------------------------------------------
(* The two stacks of the Binary emitter.                                   *)

\* The last write was accepted and the emitter is in the Binary state.
BinaryWriteAccepted == wresult = "Ok" /\ emitter.state = "Binary"

\* C35: after every write the Binary emitter accepts, end_offset_pos_stack and
\* null_record_necessities have the same length, the number of StartNode events
\* written less the number of EndNode events written, and end_offset_pos_stack holds
\* the offsets of the headers of the open nodes, the outermost first: at each of them
\* the placeholder of end_offset still stands.
C35_ParallelStacks ==
    BinaryWriteAccepted =>
        /\ Len(emitter.end_offset_pos_stack) = Len(emitter.null_record_necessities)
        /\ Len(emitter.end_offset_pos_stack)
               = Count(written, "StartNode") - Count(written, "EndNode")
        /\ emitter.end_offset_pos_stack = [i \in 1..Len(opened) |-> opened[i].offset]
        /\ \A i \in 1..Len(emitter.end_offset_pos_stack) :
               Field(emitter.end_offset_pos_stack[i], WriterFieldWidth(emitter.version))
                   = EndOffsetPlaceholder(emitter.version)

\* Two nodes are open, the inner one's header after the outer one's.
C35_Witness ==
    /\ BinaryWriteAccepted
    /\ Len(emitter.end_offset_pos_stack) = 2
    /\ Len(emitter.null_record_necessities) = 2
    /\ emitter.end_offset_pos_stack[1] < emitter.end_offset_pos_stack[2]
    /\ Count(written, "StartNode") = 2

----------------------------------------------------------------------------
(* The cursor of the sink and the bytes a fixup overwrites.                *)

\* The write before this state was a StartNode or an EndNode the Binary emitter
\* accepted.
NodeWriteAccepted == Dispatched({"Binary"}, {"StartNode", "EndNode"}) /\ wresult = "Ok"

\* The offsets, among those written before the last write, whose byte the write changed.
Overwritten == {i \in 1..Len(wlast.sink.bytes) : sink.bytes[i] # wlast.sink.bytes[i]}

\* The offsets of the end_offset field of the innermost node open before the last write.
EndOffsetField ==
    IF wlast.opened = <<>> THEN {}
    ELSE {wlast.opened[Len(wlast.opened)].offset + i : i \in 1..HeaderFieldWidth}

\* C36: after every StartNode or EndNode the Binary emitter accepts, the cursor of the
\* sink is at the end of the bytes written so far and no byte written before is lost; a
\* StartNode changes no byte written before it (its fixups of compressed_length and
\* property_list_len lie in the bytes it wrote itself, which are the header, the name
\* and the properties one after the other), and an EndNode changes bytes of the
\* end_offset field of the node it ends only.
C36_FixupsInPlace ==
    NodeWriteAccepted =>
        /\ sink.pos = Len(sink.bytes)
        /\ Len(sink.bytes) >= Len(wlast.sink.bytes)
        /\ wlast.event.type = "StartNode" =>
               /\ Overwritten = {}
               /\ ArraysLaidOut(PropertyBytes, wlast.event.properties)
        /\ wlast.event.type = "EndNode" => Overwritten \subseteq EndOffsetField

\* An EndNode was accepted and overwrote bytes of the placeholder of a node with
\* properties, whose StartNode had made its own fixups.
C36_Witness ==
    /\ NodeWriteAccepted
    /\ wlast.event.type = "EndNode"
    /\ Overwritten # {}
    /\ wlast.opened[Len(wlast.opened)].properties # <<>>
    /\ sink.pos = Len(sink.bytes)

----------------------------------------------------------------------------
(* The end offsets of the nodes the reader closes.                         *)

\* The last pull of the Binary parser returned EndNode / StartNode.
EndNodePulled == PulledIn("Binary") /\ LastResult = OkResult(EndNode)
StartNodePulled ==
    PulledIn("Binary") /\ LastResult.tag = "Ok" /\ LastResult.event.type = "StartNode"

\* The end_offset field of the node record header the last pull read.
DeclaredEndOffset == LeU32(SubSeq(rlast.source.bytes, rlast.source.cur + 1,
                                  rlast.source.cur + 4))

\* A StartNode puts the end_offset its header declares on the stack; an EndNode is
\* returned with pos at the end_offset of the innermost open node, which it removes.
ClosesInnermostAtEnd ==
    /\ StartNodePulled => parser.end_offset_stack = Append(StackBefore, DeclaredEndOffset)
    /\ EndNodePulled =>
           /\ StackBefore # <<>>
           /\ parser.pos = TopBefore
           /\ parser.end_offset_stack = SubSeq(StackBefore, 1, Len(StackBefore) - 1)
    /\ pulled # <<>> => parser.pos >= rlast.parser.pos

\* The last pull closed a node whose declared end offset is above its parent's.
ChildEndsAfterParent ==
    /\ EndNodePulled
    /\ Len(StackBefore) >= 2
    /\ StackBefore[Len(StackBefore) - 1] < TopBefore

\* The input is accepted: the reader has returned EndFbx.
InputAccepted == parser.final_result = OkResult(EndFbx)

\* C37: every EndNode the Binary reader returns is returned with pos equal to the
\* end_offset declared in the header of the innermost open node, which is the node it
\* closes; an input in which a child's declared end offset is above its parent's is
\* never accepted.
C37_EndNodeAtEndOffset ==
    /\ []ClosesInnermostAtEnd
    /\ [](ChildEndsAfterParent => []~InputAccepted)

\* A child was closed at its declared end offset while its parent is open, its parent's
\* end offset being no less.
C37_Witness ==
    /\ EndNodePulled
    /\ Len(StackBefore) = 2
    /\ parser.pos = TopBefore
    /\ StackBefore[1] >= TopBefore

----------------------------------------------------------------------------
(* The clone of the error a write is rejected with.                        *)

\* The errors of a rejected write that are not I/O errors.
NonIoRejections ==
    {"FbxNotStarted", "FbxAlreadyStarted", "ExtraEndNode", "UnsupportedFbxVersion",
     "UnwritableEvent"}

\* C38: the clone of a writer Error returns an error of the same variant, so a write
\* that is rejected with an error that is not an I/O error keeps the error as
\* final_result and returns it to the caller.
C38_RejectionReturned ==
    (wlast.event.type # "None" /\ wlast.emitter.final_result = "None") =>
        \E r \in {Dispatch(wlast.emitter, config, wlast.sink, wlast.event)} :
            r.res \in NonIoRejections =>
                /\ ~aborted
                /\ wresult = r.res
                /\ emitter.final_result = r.res

----------------------------------------------------------------------------
(* The footer and the writes after it.                                     *)

\* The events written before the last write.
WrittenBefore ==
    IF wresult = "Ok" /\ ~Dropped(wlast.emitter, wlast.event)
    THEN SubSeq(written, 1, Len(written) - 1)
    ELSE written

\* C39: the Binary writer accepts EndFbx only when every node that was started is
\* ended, and once an EndFbx is accepted no later StartNode, EndNode or EndFbx adds or
\* changes a byte of the sink.
C39_FooterIsLast ==
    /\ (Dispatched({"Binary"}, {"EndFbx"}) /\ wresult = "Ok") => wlast.opened = <<>>
    /\ (/\ wlast.emitter.state = "Binary"
        /\ wlast.event.type \in {"StartNode", "EndNode", "EndFbx"}
        /\ Count(WrittenBefore, "EndFbx") > 0) => sink.bytes = wlast.sink.bytes

====
